---- MODULE Spec2Model ----
(***************************************************************************)
(* Model of the godfather-backend game server: the token service           *)
(* (auth_service.py), the login state machine (routes/auth.py), the        *)
(* player store (utils/google_client.py) and the handlers that change      *)
(* balances and the alive flag (routes/trades.py, routes/blackmarket.py,   *)
(* routes/missions.py, routes/admin.py, routes/players.py).                *)
(*                                                                         *)
(* Encodings.                                                              *)
(*  - player_id: an integer; NoId (0) is the empty cell "", AdminUuid is   *)
(*    the string "admin-uuid", values from UuidBase on are uuid4 strings   *)
(*    and the values between are numbers an administrator typed into the   *)
(*    sheet (get_all_records returns them as Python ints).  A request      *)
(*    field declared int carries only the numbers, a field declared str    *)
(*    only the strings: IntIds and StrIds.                                 *)
(*  - alive: the sheet cell as the handlers see it.  StrTRUE / StrFALSE    *)
(*    are the Python strings "TRUE" / "FALSE", PyTrue / PyFalse are the    *)
(*    Python booleans; Truthy gives Python's truth value of each.  The     *)
(*    store returns the value that was written (the Player Store           *)
(*    interface of the specification).                                     *)
(*  - money and scores: integers; individual_score is stored times 10,     *)
(*    so that 0.4 * balance stays an integer.                              *)
(*  - a token is the record of its claims plus sig, the key it was signed  *)
(*    with; NoToken is the empty string "".                                *)
(*  - Spec explores the game at one instant (now does not advance in it);  *)
(*    expired, forged and type-less tokens enter as variants of the tokens *)
(*    the clients hold.  Time advances in SpecToken and SpecLifetime.      *)
(*  - writable: whether the spreadsheet accepts edits.  It stays TRUE      *)
(*    except in SpecOutage, where a failed write stores nothing and the    *)
(*    update function returns False.                                       *)
(*  - pending: the requests whose dependencies are resolved and whose      *)
(*    handler body has not run yet (SpecMarket); in the other              *)
(*    specifications a request runs in one step.                           *)
(*  - sheet.find(text) returns the first cell of the sheet with that text, *)
(*    in any column: a row is found by every cell that can carry the text  *)
(*    of the identifier searched for.                                      *)
(*  - game_state: the in-process settings of routes/admin.py (current      *)
(*    day, mission unlock hour).  The clock of the mission and market      *)
(*    gates is an input of the request: an hour in SpecBoard, a reading    *)
(*    in seconds since midnight in SpecGate.                               *)
(***************************************************************************)
EXTENDS Integers, Sequences, FiniteSets, TLC

VARIABLES players, offers, missions, session, now, resp, pending, writable,
          game_state

vars == <<players, offers, missions, session, now, resp, pending, writable,
          game_state>>

----------------------------------------------------------------------------
(* Bounds of the model *)

MaxBalance == 3
MaxAmount == 2
MaxInflight == 2
MaxStock == 2
MaxDays == 9
MaxMissions == 3
MaxStat == 2

(* Program constants *)
DefaultUnlockHour == 9

ACCESS_TOKEN_EXPIRE_MINUTES == 1440
REFRESH_TOKEN_EXPIRE_DAYS == 7
ADMIN_BALANCE == 999999999

MinutesPerDay == 24 * 60
Epoch == 2 * REFRESH_TOKEN_EXPIRE_DAYS * MinutesPerDay

----------------------------------------------------------------------------
(* Value domains *)

Emails == <<"p1@oloid.ai", "p2@oloid.ai">>
EmailSet == {Emails[i] : i \in DOMAIN Emails}
ADMIN_USERNAME == "varun.mahurkar@oloid.ai"
ADMIN_PASSWORD == "godfatheradmin@12345varun"
UnknownEmail == "nobody@oloid.ai"
Clients == EmailSet \cup {ADMIN_USERNAME}

NoId == 0
AdminUuid == 0 - 1
UuidBase == 100

(* The identifiers a request field declared int, or str, can carry. *)
IsInt(player_id) == player_id > NoId /\ player_id < UuidBase
IntIds(ids) == {id \in ids : IsInt(id)}
StrIds(ids) == {id \in ids : ~IsInt(id)}

NoRole == ""
Roles == {"Don", "Soldier"}
RequestRoles == Roles \cup {NoRole, "don", "Godfather"}
Families == {"", "Corleone"}
NoFamily == "<absent>"

StoredPassword == "nXlPB8"
RequestPasswords == {StoredPassword, "wrong", ADMIN_PASSWORD}

StrTRUE == "TRUE"
StrFALSE == "FALSE"
PyTrue == "py:True"
PyFalse == "py:False"

(* Python truth value of a cell: False and the empty string are falsy. *)
Truthy(v) == v \notin {PyFalse, ""}

NoKind == ""
Kinds == {"access", "refresh"}

----------------------------------------------------------------------------
(* Token service: src/auth_service.py *)

SECRET_KEY == "your-secret-key-change-in-production"

NoToken ==
  [player_id |-> NoId, email |-> "", role |-> "", family |-> "",
   type |-> "", exp |-> 0, sig |-> ""]

jwt_encode(claims, expire, kind) ==
  [player_id |-> claims.player_id, email |-> claims.email,
   role |-> claims.role, family |-> claims.family,
   type |-> kind, exp |-> expire, sig |-> SECRET_KEY]

create_access_token(data, t) ==
  jwt_encode(data, t + ACCESS_TOKEN_EXPIRE_MINUTES, "access")

create_refresh_token(data, t) ==
  jwt_encode(data, t + REFRESH_TOKEN_EXPIRE_DAYS * MinutesPerDay, "refresh")

jwt_decode_without_exp(token, t) ==
  IF token.sig # SECRET_KEY THEN [ok |-> FALSE, error |-> "InvalidTokenError", payload |-> token]
  ELSE [ok |-> TRUE, error |-> "", payload |-> token]

(* jwt.decode: the signature is verified first, then the exp claim. *)
jwt_decode(token, t) ==
  IF token.sig # SECRET_KEY THEN [ok |-> FALSE, error |-> "InvalidTokenError", payload |-> token]
  ELSE IF token.exp <= t THEN [ok |-> FALSE, error |-> "ExpiredSignatureError", payload |-> token]
  ELSE [ok |-> TRUE, error |-> "", payload |-> token]

Ok(payload) == [ok |-> TRUE, status |-> 200, detail |-> "", payload |-> payload]
HTTPException(status, detail) ==
  [ok |-> FALSE, status |-> status, detail |-> detail, payload |-> NoToken]

type_mismatch_without_relaxation(payload, token_type) ==
  token_type # NoKind /\ payload.type # token_type

(* The type check of decode_token raises inside the try block. *)
type_mismatch(payload, token_type) ==
  token_type # NoKind /\ payload.type # "" /\ payload.type # token_type

(* "except Exception" of decode_token: it also catches the HTTPException *)
(* that the type check raises two lines above it.                        *)
decode_token_except_Exception(raised) ==
  HTTPException(401, "Authentication failed")

decode_token(token, token_type, t) ==
  LET d == jwt_decode(token, t) IN
  IF d.error = "ExpiredSignatureError" THEN HTTPException(401, "Token has expired. Please login again or refresh your token")
  ELSE IF d.error = "InvalidTokenError" THEN HTTPException(401, "Invalid token: {str(e)}")
  ELSE IF type_mismatch(d.payload, token_type)
       THEN decode_token_except_Exception(HTTPException(401, "Invalid token type. Expected {token_type} token"))
  ELSE Ok(d.payload)

get_current_user_from_token(token, t) == decode_token(token, "access", t)

refresh_expected_kind_none == NoKind

(* the kind refresh_access_token asks decode_token for *)
refresh_expected_kind == "refresh"

(* The new access token, or the rejection raised by decode_token. *)
refresh_access_token(refresh_token, t) ==
  LET d == decode_token(refresh_token, refresh_expected_kind, t)
      token_data == [player_id |-> d.payload.player_id, email |-> d.payload.email,
                     role |-> d.payload.role, family |-> d.payload.family]
  IN IF ~d.ok THEN d ELSE Ok(create_access_token(token_data, t))

get_player_id_from_token(token, t) == get_current_user_from_token(token, t)

----------------------------------------------------------------------------
(* Player store: src/utils/google_client.py *)

NoRow == 0

(* The first of the matching row indices (the loops return at the first  *)
(* match), or NoRow.                                                      *)
FirstRow(matching) ==
  IF matching = {} THEN NoRow
  ELSE CHOOSE i \in matching : \A j \in matching : i <= j

get_player_by_email(store, email) ==
  FirstRow({i \in DOMAIN Emails : store[Emails[i]].email = email})

get_player_by_id(store, player_id) ==
  FirstRow({i \in DOMAIN Emails : store[Emails[i]].player_id = player_id})

(* Write the cells named by updates; keys that are no column are skipped. *)
update_row(row, updates) ==
  [k \in DOMAIN row |-> IF k \in DOMAIN updates THEN updates[k] ELSE row[k]]

(* Whether the service account can edit the spreadsheet: when it cannot, *)
(* sheet.update_cell raises, the update functions catch the exception,   *)
(* write nothing and return False.  Reads are not affected.              *)
sheet_writable == writable

update_player_by_email(store, email, updates) ==
  LET i == get_player_by_email(store, email) IN
  IF i = NoRow \/ ~sheet_writable THEN store
  ELSE [store EXCEPT ![Emails[i]] = update_row(@, updates)]

(* Whether a cell of the row has the text of the identifier.  A numeric  *)
(* identifier has the text of an equal count; the empty identifier has   *)
(* the text of an empty cell.  Names, emails and passwords are words,    *)
(* and the amounts of the sheet lie far above the identifiers.           *)
row_has_cell(row, player_id) ==
  IF player_id = NoId
  THEN row.player_id = NoId \/ row.role = "" \/ row.family = ""
  ELSE \/ row.player_id = player_id
       \/ /\ IsInt(player_id)
          /\ player_id \in {row.missions_completed, row.kills_made,
                             row.puzzles_solved, row.influence_points}

(* sheet.find(str(player_id)): the first cell of the whole sheet with    *)
(* that text, row by row, whatever its column.  No handler passes the    *)
(* email key together with an empty identifier.                          *)
update_player(store, player_id, updates) ==
  LET i == FirstRow({k \in DOMAIN Emails : row_has_cell(store[Emails[k]], player_id)}) IN
  IF i = NoRow \/ ~sheet_writable THEN store
  ELSE [store EXCEPT ![Emails[i]] = update_row(@, updates)]

(* str.lower() on the role names in use *)
lower(role) ==
  CASE role = "Godfather" -> "godfather"
    [] role = "Don" -> "don"
    [] role = "Soldier" -> "soldier"
    [] OTHER -> role

is_admin(store, email) ==
  IF email = ADMIN_USERNAME \/ email = "godfather" THEN TRUE
  ELSE LET i == get_player_by_email(store, email) IN
       IF i = NoRow THEN FALSE
       ELSE LET p == store[Emails[i]]
                role == IF p.role # "" THEN p.role ELSE p.assigned_role
            IN lower(role) = "godfather"

----------------------------------------------------------------------------
(* Score calculator: src/utils/scoring.py (scores are kept times 10) *)

calculate_individual_score_kills_as_missions(money, missions_completed, puzzles_solved, kills_made, influence_points) ==
  4 * money + 400 * missions_completed + 300 * puzzles_solved
    + 400 * kills_made + 2 * influence_points

calculate_individual_score(money, missions_completed, puzzles_solved, kills_made, influence_points) ==
  4 * money + 400 * missions_completed + 300 * puzzles_solved
    + 1000 * kills_made + 2 * influence_points

recalculate_player_score(player) ==
  calculate_individual_score(player.balance, player.missions_completed,
    player.puzzles_solved, player.kills_made, player.influence_points)

----------------------------------------------------------------------------
(* Responses *)

NoPlayer ==
  [player_id |-> NoId, email |-> "", password |-> "", role |-> "",
   assigned_role |-> "", family |-> "", balance |-> 0, alive |-> PyTrue,
   registered |-> "", missions_completed |-> 0, puzzles_solved |-> 0,
   kills_made |-> 0, influence_points |-> 0, individual_score |-> 0,
   items |-> <<>>]

(* The synthetic administrator profile; absent keys read as their defaults. *)
AdminPlayer ==
  [NoPlayer EXCEPT !.player_id = AdminUuid, !.email = ADMIN_USERNAME,
     !.role = "Godfather", !.family = "Administration",
     !.balance = ADMIN_BALANCE, !.alive = PyTrue]

(* What the client sees of the last request: the handler that answered,  *)
(* the type claim of the token presented (and the kind decode_token was   *)
(* asked for), the status, the detail and the body.                       *)
Response(op, status, detail) ==
  [op |-> op, status |-> status, detail |-> detail,
   presented |-> "", expected |-> "", token |-> NoToken,
   access_token |-> NoToken, refresh_token |-> NoToken,
   is_first_login |-> FALSE, assigned_role |-> "", new_balance |-> 0,
   mission_id |-> 0, player |-> NoPlayer, missions |-> <<>>, unlocked |-> FALSE,
   hour |-> 0 - 1, offers |-> <<>>, market_open |-> FALSE, new_score |-> 0,
   leaderboard |-> <<>>, limit |-> 0]

Result(store, response) == [players |-> store, resp |-> response]

----------------------------------------------------------------------------
(* Login state machine: src/routes/auth.py *)

(* uuid.uuid4(): an identifier no row of the sheet carries yet. *)
uuid4(store) ==
  LET used == {store[e].player_id : e \in EmailSet} \cup {UuidBase}
      top == CHOOSE m \in used : \A n \in used : n <= m
  IN top + 1

login_is_eliminated_by_truth_value(player) == ~Truthy(player.alive)

login_is_eliminated(player) ==
  player.alive = StrFALSE \/ ~Truthy(player.alive)

login_role_matches_ignoring_case(requested, expected) ==
  lower(requested) = lower(expected)

login_role_matches(requested, expected) == requested = expected

(* "if not request.role": the role is absent or empty *)
login_role_missing_never(role) == FALSE

login_role_missing(role) == role = NoRole

(* "if not assigned_role or assigned_role == ''" *)
login_is_pending_never(player) == FALSE

login_is_pending(player) == player.assigned_role = ""

login_token_data_without_family(player, user_email) ==
  [player_id |-> player.player_id, email |-> user_email,
   role |-> player.role, family |-> ""]

login_token_data(player, user_email) ==
  [player_id |-> player.player_id, email |-> user_email,
   role |-> player.role, family |-> player.family]

login_admin_role_allowed_always(role) == TRUE

(* no role selected, or the Godfather role *)
login_admin_role_allowed(role) == role = NoRole \/ role = "Godfather"

login_admin(store, req, t) ==
  IF req.password # ADMIN_PASSWORD
  THEN Result(store, Response("login", 401, "Invalid admin credentials"))
  ELSE IF ~login_admin_role_allowed(req.role)
  THEN Result(store, Response("login", 403, "Admin must login with 'Godfather' role"))
  ELSE LET token_data == [player_id |-> AdminUuid, email |-> ADMIN_USERNAME,
                          role |-> "Godfather", family |-> NoFamily]
       IN Result(store,
            [Response("login", 200, "") EXCEPT
               !.access_token = create_access_token(token_data, t),
               !.refresh_token = create_refresh_token(token_data, t),
               !.player = AdminPlayer])

login_first(store, req, player, t) ==
  IF login_role_missing(req.role)
  THEN Result(store,
         [Response("login", 200, "") EXCEPT
            !.is_first_login = TRUE, !.assigned_role = player.assigned_role])
  ELSE IF ~login_role_matches(req.role, player.assigned_role)
  THEN Result(store, Response("login", 403, "You are assigned the role '{assigned_role}'. Please select the correct role."))
  ELSE LET new_uuid == uuid4(store)
           updated == update_player_by_email(store, req.email,
                        [player_id |-> new_uuid, role |-> player.assigned_role,
                         registered |-> StrTRUE])
           refreshed == updated[Emails[get_player_by_email(updated, req.email)]]
           token_data == login_token_data(refreshed, req.email)
       IN Result(updated,
            [Response("login", 200, "") EXCEPT
               !.access_token = create_access_token(token_data, t),
               !.refresh_token = create_refresh_token(token_data, t),
               !.player = [refreshed EXCEPT !.password = ""]])

login_returning(store, req, player, t) ==
  IF login_role_missing(req.role)
  THEN Result(store, Response("login", 400, "Role selection is required for login"))
  ELSE IF ~login_role_matches(req.role, player.role)
  THEN Result(store, Response("login", 403, "Role mismatch. You are registered as '{stored_role}'. Please select the correct role."))
  ELSE LET token_data == login_token_data(player, req.email)
       IN Result(store,
            [Response("login", 200, "") EXCEPT
               !.access_token = create_access_token(token_data, t),
               !.refresh_token = create_refresh_token(token_data, t),
               !.player = [player EXCEPT !.password = ""]])

(* GET /auth/verify: decode_token without an expected kind; the player   *)
(* data of the response is read from the sheet.                          *)
verify_token(store, token, t) ==
  LET d == decode_token(token, NoKind, t) IN
  IF ~d.ok THEN [Response("verify_token", d.status, d.detail) EXCEPT !.token = token]
  ELSE [Response("verify_token", 200, "") EXCEPT !.token = token]

(* POST /auth/refresh: an HTTPException is raised again as it is. *)
refresh(refresh_token, t) ==
  LET r == refresh_access_token(refresh_token, t) IN
  IF ~r.ok THEN [Response("refresh", r.status, r.detail) EXCEPT !.token = refresh_token]
  ELSE [Response("refresh", 200, "") EXCEPT
          !.token = refresh_token, !.access_token = r.payload]

login(store, req, t) ==
  IF req.email = ADMIN_USERNAME THEN login_admin(store, req, t)
  ELSE
  LET row == get_player_by_email(store, req.email) IN
  IF row = NoRow
  THEN Result(store, Response("login", 401, "Invalid email or password. Please check your credentials."))
  ELSE
  LET player == store[Emails[row]] IN
  IF player.password # req.password
  THEN Result(store, Response("login", 401, "Invalid email or password"))
  ELSE IF login_is_eliminated(player)
  THEN Result(store, Response("login", 403, "Your character has been eliminated from the game"))
  ELSE IF login_is_pending(player)
  THEN Result(store, Response("login", 403, "Your account is pending admin approval. Please contact the admin to assign you a family and role."))
  ELSE IF player.player_id = NoId
  THEN login_first(store, req, player, t)
  ELSE login_returning(store, req, player, t)

----------------------------------------------------------------------------
(* Identity resolution of the routers *)

Resolved(player) == [ok |-> TRUE, status |-> 200, detail |-> "", player |-> player]
Rejected(status, detail) ==
  [ok |-> FALSE, status |-> status, detail |-> detail, player |-> NoPlayer]

(* auth_service.get_player_from_token: access tokens only *)
get_player_from_token(store, token, t) ==
  LET d == get_current_user_from_token(token, t) IN
  IF ~d.ok THEN Rejected(d.status, d.detail)
  ELSE IF d.payload.player_id = AdminUuid \/ d.payload.email = ADMIN_USERNAME
  THEN Resolved(AdminPlayer)
  ELSE LET i == get_player_by_id(store, d.payload.player_id) IN
       IF i = NoRow THEN Rejected(404, "Player not found")
       ELSE Resolved(store[Emails[i]])

(* routes/blackmarket.py get_current_player: jwt.decode, no type check *)
get_current_player(store, token, t) ==
  LET d == jwt_decode(token, t) IN
  IF ~d.ok THEN Rejected(401, "Invalid token")
  ELSE IF d.payload.player_id = AdminUuid THEN Resolved(AdminPlayer)
  ELSE LET i == get_player_by_id(store, d.payload.player_id) IN
       IF i = NoRow THEN Rejected(404, "Player not found")
       ELSE Resolved(store[Emails[i]])

(* routes/trades.py get_current_player_id: jwt.decode, no type check.  The *)
(* except clause names jwt.JWTError, which PyJWT does not define, so a     *)
(* token that jwt.decode refuses ends in an AttributeError.                *)
get_current_player_id(token, t) ==
  LET d == jwt_decode(token, t) IN
  IF d.ok THEN Ok(d.payload) ELSE HTTPException(500, "Internal Server Error")

(* routes/admin.py verify_admin: jwt.decode, no type check.  Its test     *)
(* player_id == 0 compares with the integer 0, which no identifier of a   *)
(* token equals (identifiers are strings).                                *)
verify_admin(token, t) ==
  LET d == jwt_decode(token, t) IN
  IF ~d.ok THEN HTTPException(401, "Invalid token")
  ELSE IF d.payload.player_id = AdminUuid \/ d.payload.role \in {"Godfather", "admin"}
  THEN Ok(d.payload)
  ELSE HTTPException(403, "Admin access required")

Reply(op, token, status, detail) ==
  [Response(op, status, detail) EXCEPT !.presented = token.type]

----------------------------------------------------------------------------
(* Trades: src/routes/trades.py, src/utils/google_client.py add_trade *)

(* add_trade reads both rows again and moves the amount once more.  The   *)
(* trades_completed cell it also rewrites is read by no handler and is    *)
(* not represented.                                                       *)
add_trade(store, from_player, to_player, amount) ==
  LET s == get_player_by_id(store, from_player)
      debited == IF s = NoRow THEN store
                 ELSE update_player(store, from_player,
                        [balance |-> store[Emails[s]].balance - amount])
      r == get_player_by_id(debited, to_player)
  IN IF r = NoRow THEN debited
     ELSE update_player(debited, to_player,
            [balance |-> debited[Emails[r]].balance + amount])

transfer_is_alive(player) == Truthy(player.alive)

transfer_has_funds_off_by_one(sender_balance, amount) ==
  ~(sender_balance + 1 < amount)

transfer_has_funds(sender_balance, amount) == ~(sender_balance < amount)

transfer_money(store, token, to_player_id, amount, t) ==
  LET auth == get_current_player_id(token, t)
      current_player_id == auth.payload.player_id
      f == get_player_by_id(store, current_player_id)
      r == get_player_by_id(store, to_player_id)
  IN
  IF ~auth.ok THEN Result(store, Reply("transfer_money", token, auth.status, auth.detail))
  ELSE IF amount <= 0
  THEN Result(store, Reply("transfer_money", token, 400, "Amount must be greater than 0"))
  ELSE IF f = NoRow
  THEN Result(store, Reply("transfer_money", token, 404, "Sender not found"))
  ELSE IF ~transfer_is_alive(store[Emails[f]])
  THEN Result(store, Reply("transfer_money", token, 403, "Dead players cannot make transfers"))
  ELSE IF r = NoRow
  THEN Result(store, Reply("transfer_money", token, 404, "Recipient not found"))
  ELSE IF ~transfer_is_alive(store[Emails[r]])
  THEN Result(store, Reply("transfer_money", token, 400, "Cannot transfer to eliminated players"))
  ELSE IF ~transfer_has_funds(store[Emails[f]].balance, amount)
  THEN Result(store, Reply("transfer_money", token, 400, "Insufficient funds"))
  ELSE
  LET from_player == store[Emails[f]]
      to_player == store[Emails[r]]
      new_sender_balance == from_player.balance - amount
      new_recipient_balance == to_player.balance + amount
      sender_score == recalculate_player_score([from_player EXCEPT !.balance = new_sender_balance])
      recipient_score == recalculate_player_score([to_player EXCEPT !.balance = new_recipient_balance])
      s1 == update_player(store, current_player_id,
              [balance |-> new_sender_balance, individual_score |-> sender_score])
      s2 == update_player(s1, to_player_id,
              [balance |-> new_recipient_balance, individual_score |-> recipient_score])
      s3 == add_trade(s2, current_player_id, to_player_id, amount)
  IN Result(s3, [Reply("transfer_money", token, 200, "") EXCEPT
                   !.new_balance = new_sender_balance])

----------------------------------------------------------------------------
(* Black market: src/routes/blackmarket.py *)

(* datetime.now(ist).hour and .minute of a clock reading in seconds since *)
(* midnight                                                              *)
hour_of(seconds) == seconds \div 3600
minute_of(seconds) == (seconds % 3600) \div 60

is_market_open_through_minute_11(hour, minute) ==
  (hour = 23 /\ minute >= 11) \/ (hour = 0 /\ minute <= 11)

is_market_open(hour, minute) ==
  (hour = 23 /\ minute >= 11) \/ (hour = 0 /\ minute < 11)

(* GET /blackmarket/offers *)
get_offers(store, offs, token, hour, minute, t) ==
  LET who == get_current_player(store, token, t) IN
  IF ~who.ok THEN Reply("get_offers", token, who.status, who.detail)
  ELSE [Reply("get_offers", token, 200, "") EXCEPT
          !.offers = offs, !.market_open = is_market_open(hour, minute)]

(* GET /blackmarket/admin/all-offers *)
get_all_offers_admin(store, offs, token, t) ==
  LET who == get_current_player(store, token, t) IN
  IF ~who.ok THEN Reply("get_all_offers_admin", token, who.status, who.detail)
  ELSE IF ~is_admin(store, who.player.email)
  THEN Reply("get_all_offers_admin", token, 403, "Admin access required")
  ELSE [Reply("get_all_offers_admin", token, 200, "") EXCEPT !.offers = offs]

purchase_is_alive(player) == Truthy(player.alive)

purchase_in_stock_always(quantity_available) == TRUE

purchase_in_stock(quantity_available) == ~(quantity_available <= 0)

MarketResult(store, offs, response) ==
  [players |-> store, offers |-> offs, resp |-> response]

(* The handler body, run with the player row that the dependency          *)
(* get_current_player resolved before it.                                 *)
purchase_offer_body(store, offs, token, player, offer_id, hour, minute) ==
  LET idx == FirstRow({i \in DOMAIN offs : offs[i].offer_id = offer_id})
  IN
  IF ~is_market_open(hour, minute)
  THEN MarketResult(store, offs, Reply("purchase_offer", token, 403, "Black Market is closed. Opens at 11:11 PM IST"))
  ELSE IF ~purchase_is_alive(player)
  THEN MarketResult(store, offs, Reply("purchase_offer", token, 403, "Dead players cannot make purchases"))
  ELSE IF idx = NoRow
  THEN MarketResult(store, offs, Reply("purchase_offer", token, 404, "Offer not found"))
  ELSE IF ~purchase_in_stock(offs[idx].quantity_available)
  THEN MarketResult(store, offs, Reply("purchase_offer", token, 400, "Item out of stock"))
  ELSE IF player.balance < offs[idx].price
  THEN MarketResult(store, offs, Reply("purchase_offer", token, 400, "Insufficient funds"))
  ELSE IF ~sheet_writable
  THEN MarketResult(store, offs, Reply("purchase_offer", token, 500, "Purchase failed: {str(e)}"))
  ELSE
  LET offer == offs[idx]
      new_balance == player.balance - offer.price
      current_items == Append(player.items, offer.item_name)
      new_score == recalculate_player_score(
                     [player EXCEPT !.balance = new_balance, !.items = current_items])
      updated == update_player(store, player.player_id,
                   [balance |-> new_balance, items |-> current_items,
                    individual_score |-> new_score])
      new_offers == [offs EXCEPT ![idx].quantity_available = offer.quantity_available - 1]
  IN MarketResult(updated, new_offers,
       [Reply("purchase_offer", token, 200, "") EXCEPT !.new_balance = new_balance])

purchase_offer(store, offs, token, offer_id, hour, minute, t) ==
  LET who == get_current_player(store, token, t) IN
  IF ~who.ok THEN MarketResult(store, offs, Reply("purchase_offer", token, who.status, who.detail))
  ELSE purchase_offer_body(store, offs, token, who.player, offer_id, hour, minute)

----------------------------------------------------------------------------
(* Missions: src/routes/missions.py complete_mission *)

(* The cells of a mission row that hold a number or an identifier.  A    *)
(* number n and the numeric identifier n have the same text; the titles, *)
(* types and family names are words, and the rewards of the missions     *)
(* sheet (8000 and more) lie far above the mission numbers.              *)
mission_cells(row) == {row.mission_id, row.day, row.completed_by}

(* sheet.find(str(mission_id)): the first cell of the whole sheet with   *)
(* that text, row by row, whatever its column.                           *)
sheet_find(rows, mission_id) ==
  FirstRow({k \in DOMAIN rows : mission_id \in mission_cells(rows[k])})

update_mission(rows, mission_id, updates) ==
  LET i == sheet_find(rows, mission_id)
  IN IF i = NoRow \/ ~sheet_writable THEN rows
     ELSE [rows EXCEPT ![i] = update_row(@, updates)]

MissionResult(store, rows, response) ==
  [players |-> store, missions |-> rows, resp |-> response]

complete_mission(store, rows, token, mission_id, request_player_id, t) ==
  LET who == get_player_from_token(store, token, t)
      player == who.player
      current_player_id == player.player_id
      target_player_id == IF request_player_id # NoId THEN request_player_id
                          ELSE current_player_id
      admin_access == is_admin(store, player.email)
      idx == FirstRow({i \in DOMAIN rows : rows[i].mission_id = mission_id})
      target == get_player_by_id(store, target_player_id)
  IN
  IF ~who.ok THEN MissionResult(store, rows, Reply("complete_mission", token, who.status, who.detail))
  ELSE IF ~admin_access /\ current_player_id # target_player_id
  THEN MissionResult(store, rows, Reply("complete_mission", token, 403, "You can only complete your own missions"))
  ELSE IF idx = NoRow
  THEN MissionResult(store, rows, Reply("complete_mission", token, 404, "Mission not found"))
  ELSE IF rows[idx].status = "completed"
  THEN MissionResult(store, rows, Reply("complete_mission", token, 400, "Mission already completed"))
  ELSE IF target = NoRow
  THEN MissionResult(store, rows, Reply("complete_mission", token, 404, "Player not found"))
  ELSE
  LET mission == rows[idx]
      target_player == store[Emails[target]]
      new_rows == update_mission(rows, mission_id,
                    [status |-> "completed", completed_by |-> target_player_id])
      new_balance == target_player.balance + mission.reward_md
      new_missions_completed == target_player.missions_completed + 1
      updates == IF mission.reward_item # ""
                 THEN [balance |-> new_balance,
                       missions_completed |-> new_missions_completed,
                       items |-> Append(target_player.items, mission.reward_item)]
                 ELSE [balance |-> new_balance,
                       missions_completed |-> new_missions_completed]
  IN MissionResult(update_player(store, target_player_id, updates), new_rows,
       [Reply("complete_mission", token, 200, "") EXCEPT
          !.new_balance = new_balance, !.mission_id = mission_id])

----------------------------------------------------------------------------
(* Mission lists: src/utils/google_client.py get_missions_for_player,    *)
(* src/routes/missions.py get_today_missions, get_all_missions_for_player *)

(* dict.get of a key the dict does not have *)
NoUsername == "<None>"

(* an optional integer parameter that is absent *)
NoneInt == 0 - 1

(* routes/admin.py game_state, the in-process settings of the game *)
InitialGameState == [current_day |-> 1, mission_unlock_hour |-> DefaultUnlockHour]

(* the rows with a mission_id *)
get_all_missions(rows) ==
  LET has_id(r) == r.mission_id # 0 IN SelectSeq(rows, has_id)

mission_visible_to_family_of_any_role(mission, player_id, role, family) ==
  CASE mission.visibility = "public" ->
         mission.assigned_family = "all" \/ mission.assigned_family = family
    [] mission.visibility = "private" -> mission.assigned_to = player_id
    [] mission.visibility = "family" -> mission.assigned_family = family
    [] OTHER -> FALSE

(* the three branches of the loop of get_missions_for_player *)
mission_visible(mission, player_id, role, family) ==
  CASE mission.visibility = "public" ->
         /\ mission.assigned_family = "all" \/ mission.assigned_family = family
         /\ mission.assigned_role = "all" \/ mission.assigned_role = role
    [] mission.visibility = "private" -> mission.assigned_to = player_id
    [] mission.visibility = "family" -> mission.assigned_family = family
    [] OTHER -> FALSE

get_missions_for_player(rows, player_id, role, family, admin) ==
  LET visible(m) == mission_visible(m, player_id, role, family) IN
  IF admin THEN get_all_missions(rows)
  ELSE SelectSeq(get_all_missions(rows), visible)

MissionsOfDay(list, day) ==
  LET of_day(m) == m.day = day IN SelectSeq(list, of_day)

(* GET /missions/today; hour is the hour of the clock in Asia/Kolkata *)
get_today_missions(store, rows, state, token, hour, t) ==
  LET who == get_player_from_token(store, token, t)
      player == who.player
      admin_access == is_admin(store, player.email)
      missions_unlocked == hour >= state.mission_unlock_hour \/ admin_access
      listed == get_missions_for_player(rows, player.player_id, player.role,
                                        player.family, admin_access)
  IN
  IF ~who.ok THEN Reply("get_today_missions", token, who.status, who.detail)
  ELSE IF ~missions_unlocked
  THEN [Reply("get_today_missions", token, 200, "") EXCEPT !.player = player]
  ELSE [Reply("get_today_missions", token, 200, "") EXCEPT
          !.player = player, !.unlocked = TRUE,
          !.missions = MissionsOfDay(listed, state.current_day)]

(* GET /missions/all; day is NoneInt when the query parameter is absent *)
get_all_missions_for_player(store, rows, state, token, day, t) ==
  LET who == get_player_from_token(store, token, t)
      player == who.player
      admin_access == is_admin(store, player.email)
      listed == get_missions_for_player(rows, player.player_id, player.role,
                                        player.family, admin_access)
  IN
  IF ~who.ok THEN Reply("get_all_missions_for_player", token, who.status, who.detail)
  ELSE [Reply("get_all_missions_for_player", token, 200, "") EXCEPT
          !.player = player,
          !.missions = MissionsOfDay(listed, IF day # NoneInt THEN day
                                             ELSE state.current_day)]

(* POST /admin/set-game-day *)
set_game_day(state, token, day, t) ==
  LET auth == verify_admin(token, t) IN
  IF ~auth.ok THEN [state |-> state, resp |-> Reply("set_game_day", token, auth.status, auth.detail)]
  ELSE [state |-> [state EXCEPT !.current_day = day],
        resp |-> Reply("set_game_day", token, 200, "")]

(* POST /admin/set-unlock-hour *)
set_unlock_hour(state, token, hour, t) ==
  LET auth == verify_admin(token, t) IN
  IF ~auth.ok THEN [state |-> state, resp |-> Reply("set_unlock_hour", token, auth.status, auth.detail)]
  ELSE IF hour < 0 \/ hour > 23
  THEN [state |-> state, resp |-> Reply("set_unlock_hour", token, 400, "Hour must be between 0 and 23")]
  ELSE [state |-> [state EXCEPT !.mission_unlock_hour = hour],
        resp |-> Reply("set_unlock_hour", token, 200, "")]

is_don(store, email) ==
  LET i == get_player_by_email(store, email) IN
  IF i = NoRow THEN FALSE
  ELSE LET p == store[Emails[i]]
           role == IF p.role # "" THEN p.role ELSE p.assigned_role
       IN lower(role) = "don"

BoardResult(rows, response) == [missions |-> rows, resp |-> response]

next_id_without_increment(rows) ==
  LET all_missions == get_all_missions(rows)
      Max(S) == CHOOSE x \in S : \A y \in S : y <= x
  IN IF all_missions = <<>> THEN 1
     ELSE Max({all_missions[i].mission_id : i \in DOMAIN all_missions})

(* max([m.get("mission_id", 0) for m in all_missions], default=0) + 1 *)
next_id(rows) ==
  LET all_missions == get_all_missions(rows)
      Max(S) == CHOOSE x \in S : \A y \in S : y <= x
  IN IF all_missions = <<>> THEN 1
     ELSE Max({all_missions[i].mission_id : i \in DOMAIN all_missions}) + 1

(* sheet.append_row of the values of mission_data under the headers *)
add_mission(rows, mission_data) == Append(rows, mission_data)

(* POST /missions/create *)
create_mission(store, rows, token, request, t) ==
  LET who == get_player_from_token(store, token, t)
      player == who.player
      admin_access == is_admin(store, player.email)
      don_access == is_don(store, player.email)
      mission_data ==
        [mission_id |-> next_id(rows), status |-> "available",
         reward_md |-> request.reward_md, reward_item |-> "",
         day |-> request.day, completed_by |-> NoId,
         visibility |-> request.visibility,
         assigned_family |-> request.assigned_family,
         assigned_role |-> request.assigned_role,
         assigned_to |-> request.assigned_to]
      Refuse(status, detail) ==
        BoardResult(rows, Reply("create_mission", token, status, detail))
  IN
  IF ~who.ok THEN Refuse(who.status, who.detail)
  ELSE IF ~admin_access /\ ~don_access
  THEN Refuse(403, "Only Godfather or Family Dons can create missions")
  ELSE IF /\ don_access /\ ~admin_access
          /\ \/ request.visibility # "family"
             \/ request.assigned_family # player.family
  THEN Refuse(403, "Dons can only create missions for their own family")
  ELSE IF ~sheet_writable THEN Refuse(500, "Error: {str(e)}")
  ELSE BoardResult(add_mission(rows, mission_data),
                   [Reply("create_mission", token, 200, "") EXCEPT
                      !.mission_id = mission_data.mission_id])

(* POST /admin/add-mission *)
add_new_mission(rows, token, request, t) ==
  LET auth == verify_admin(token, t)
      mission_data ==
        [mission_id |-> next_id(rows), status |-> "active",
         reward_md |-> request.reward_md, reward_item |-> "",
         day |-> request.day, completed_by |-> NoId,
         visibility |-> request.visibility,
         assigned_family |-> request.assigned_family,
         assigned_role |-> request.assigned_role,
         assigned_to |-> NoId]
      Refuse(status, detail) ==
        BoardResult(rows, Reply("add_new_mission", token, status, detail))
  IN
  IF ~auth.ok THEN Refuse(auth.status, auth.detail)
  ELSE IF ~sheet_writable THEN Refuse(500, "Error: {str(e)}")
  ELSE BoardResult(add_mission(rows, mission_data),
                   [Reply("add_new_mission", token, 200, "") EXCEPT
                      !.mission_id = mission_data.mission_id])

(* DELETE /admin/clear-missions *)
clear_all_missions(rows, token, t) ==
  LET auth == verify_admin(token, t) IN
  IF ~auth.ok
  THEN BoardResult(rows, Reply("clear_all_missions", token, auth.status, auth.detail))
  ELSE IF ~sheet_writable
  THEN BoardResult(rows, Reply("clear_all_missions", token, 500, "Error: {str(e)}"))
  ELSE BoardResult(<<>>, Reply("clear_all_missions", token, 200, ""))

(* GET /missions/admin/all-missions.  The handler asks is_admin about   *)
(* player.get("username"); a row of the players sheet has no such       *)
(* column, nor has the administrator's profile, so the value is None.   *)
get_all_missions_admin(store, rows, token, t) ==
  LET who == get_player_from_token(store, token, t)
      username == NoUsername
  IN
  IF ~who.ok THEN Reply("get_all_missions_admin", token, who.status, who.detail)
  ELSE IF ~is_admin(store, username)
  THEN Reply("get_all_missions_admin", token, 403, "Admin access required")
  ELSE [Reply("get_all_missions_admin", token, 200, "") EXCEPT
          !.missions = get_all_missions(rows)]

----------------------------------------------------------------------------
(* Players: src/routes/players.py mark_player_dead *)

mark_player_dead(store, token, t) ==
  LET auth == get_player_id_from_token(token, t)
      current_player_id == auth.payload.player_id
  IN
  IF ~auth.ok THEN Result(store, Reply("mark_player_dead", token, auth.status, auth.detail))
  ELSE IF current_player_id = AdminUuid
  THEN Result(store, Reply("mark_player_dead", token, 403, "Admin cannot be marked as dead"))
  ELSE IF get_player_by_id(store, current_player_id) = NoRow
  THEN Result(store, Reply("mark_player_dead", token, 404, "Player not found"))
  ELSE Result(update_player(store, current_player_id, [alive |-> StrFALSE]),
              Reply("mark_player_dead", token, 200, ""))

(* get_all_players: the rows of the sheet, in sheet order *)
get_all_players(store) == [i \in DOMAIN Emails |-> store[Emails[i]]]

(* sorted(..., key=float(individual_score), reverse=True): a stable sort, *)
(* rows of equal score keep their sheet order                             *)
RECURSIVE sorted_by_score(_)
sorted_by_score(list) ==
  IF list = <<>> THEN <<>>
  ELSE LET x == list[Len(list)]
           rest == sorted_by_score(SubSeq(list, 1, Len(list) - 1))
           ahead(p) == p.individual_score >= x.individual_score
           behind(p) == ~ahead(p)
       IN SelectSeq(rest, ahead) \o <<x>> \o SelectSeq(rest, behind)

(* the slice [:limit] for a limit that is not negative *)
head(list, limit) == SubSeq(list, 1, IF limit < Len(list) THEN limit ELSE Len(list))

LeaderboardPlayer(p) ==
  [player_id |-> p.player_id, family |-> p.family,
   individual_score |-> p.individual_score, money |-> p.balance,
   missions_completed |-> p.missions_completed, kills_made |-> p.kills_made]

(* GET /player/leaderboard/top *)
get_leaderboard(store, token, limit, t) ==
  LET auth == get_player_id_from_token(token, t)
      is_alive(p) == Truthy(p.alive)
      alive_players == SelectSeq(get_all_players(store), is_alive)
      sorted_players == head(sorted_by_score(alive_players), limit)
  IN
  IF ~auth.ok THEN Reply("get_leaderboard", token, auth.status, auth.detail)
  ELSE [Reply("get_leaderboard", token, 200, "") EXCEPT
          !.limit = limit,
          !.leaderboard = [i \in DOMAIN sorted_players |->
                             LeaderboardPlayer(sorted_players[i])]]

(* POST /player/{player_id}/update-score *)
update_player_score(store, token, player_id, t) ==
  LET auth == get_player_id_from_token(token, t)
      i == get_player_by_id(store, player_id)
      new_score == recalculate_player_score(store[Emails[i]])
  IN
  IF ~auth.ok THEN Result(store, Reply("update_player_score", token, auth.status, auth.detail))
  ELSE IF auth.payload.player_id # AdminUuid
  THEN Result(store, Reply("update_player_score", token, 403, "Only admin can update scores"))
  ELSE IF i = NoRow
  THEN Result(store, Reply("update_player_score", token, 404, "Player not found"))
  ELSE Result(update_player(store, player_id, [individual_score |-> new_score]),
              [Reply("update_player_score", token, 200, "") EXCEPT
                 !.new_score = new_score])

----------------------------------------------------------------------------
(* Admin tools: src/routes/admin.py *)

update_money_clamp(new_balance) == IF new_balance < 0 THEN 0 ELSE new_balance

update_money(store, token, player_id, amount, t) ==
  LET auth == verify_admin(token, t)
      i == get_player_by_id(store, player_id)
  IN
  IF ~auth.ok THEN Result(store, Reply("update_money", token, auth.status, auth.detail))
  ELSE IF i = NoRow
  THEN Result(store, Reply("update_money", token, 404, "Player not found"))
  ELSE
  LET player == store[Emails[i]]
      new_balance == update_money_clamp(player.balance + amount)
      new_score == recalculate_player_score([player EXCEPT !.balance = new_balance])
  IN Result(update_player(store, player_id,
              [balance |-> new_balance, individual_score |-> new_score]),
            [Reply("update_money", token, 200, "") EXCEPT
               !.new_balance = new_balance])

NoneBool == "None"

(* a pydantic bool as the Python value the handler writes *)
PyBool(b) == IF b THEN PyTrue ELSE PyFalse

update_player_stats(store, token, player_id, missions_completed, puzzles_solved, kills_made, influence_points, alive, t) ==
  LET auth == verify_admin(token, t)
      i == get_player_by_id(store, player_id)
  IN
  IF ~auth.ok THEN Result(store, Reply("update_player_stats", token, auth.status, auth.detail))
  ELSE IF i = NoRow
  THEN Result(store, Reply("update_player_stats", token, 404, "Player not found"))
  ELSE
  LET player == store[Emails[i]]
      edited ==
        [player EXCEPT
           !.missions_completed = IF missions_completed # NoneInt THEN missions_completed ELSE @,
           !.puzzles_solved = IF puzzles_solved # NoneInt THEN puzzles_solved ELSE @,
           !.kills_made = IF kills_made # NoneInt THEN kills_made ELSE @,
           !.influence_points = IF influence_points # NoneInt THEN influence_points ELSE @,
           !.alive = IF alive # NoneBool THEN alive ELSE @]
      new_score == recalculate_player_score(edited)
      updates ==
        [missions_completed |-> edited.missions_completed,
         puzzles_solved |-> edited.puzzles_solved,
         kills_made |-> edited.kills_made,
         influence_points |-> edited.influence_points,
         alive |-> edited.alive,
         individual_score |-> new_score]
  IN Result(update_player(store, player_id, updates),
            Reply("update_player_stats", token, 200, ""))

eliminate_player(store, token, player_id, t) ==
  LET auth == verify_admin(token, t) IN
  IF ~auth.ok THEN Result(store, Reply("eliminate_player", token, auth.status, auth.detail))
  ELSE IF get_player_by_id(store, player_id) = NoRow
  THEN Result(store, Reply("eliminate_player", token, 404, "Player not found"))
  ELSE Result(update_player(store, player_id, [alive |-> PyBool(FALSE)]),
              Reply("eliminate_player", token, 200, ""))

revive_player(store, token, player_id, t) ==
  LET auth == verify_admin(token, t) IN
  IF ~auth.ok THEN Result(store, Reply("revive_player", token, auth.status, auth.detail))
  ELSE IF get_player_by_id(store, player_id) = NoRow
  THEN Result(store, Reply("revive_player", token, 404, "Player not found"))
  ELSE Result(update_player(store, player_id, [alive |-> PyBool(TRUE)]),
              Reply("revive_player", token, 200, ""))

assign_role_updates_role_only(role, family) ==
  [role |-> role, family |-> family, items |-> <<>>]

(* both role columns are written, the items are emptied *)
assign_role_updates(role, family) ==
  [role |-> role, assigned_role |-> role, family |-> family, items |-> <<>>]

assign_role(store, token, player_id, role, family, t) ==
  LET auth == verify_admin(token, t)
      i == get_player_by_id(store, player_id)
  IN
  IF ~auth.ok THEN Result(store, Reply("assign_role", token, auth.status, auth.detail))
  ELSE IF i = NoRow
  THEN Result(store, Reply("assign_role", token, 404, "Player not found"))
  ELSE LET success == sheet_writable IN
       IF ~success
       THEN Result(store, Reply("assign_role", token, 500, "Failed to assign role"))
       ELSE Result(update_player_by_email(store, store[Emails[i]].email,
                     assign_role_updates(role, family)),
                   Reply("assign_role", token, 200, ""))

----------------------------------------------------------------------------
(* Clients and the tokens they can present *)

NoSession == [access_token |-> NoToken, refresh_token |-> NoToken]

Held == UNION {{session[c].access_token, session[c].refresh_token} : c \in Clients}

(* Besides a token as issued, a client can present one with the same     *)
(* claims that was issued long ago (expired), one issued before the type *)
(* claim existed, and one signed with another key.                       *)
Variants(token) ==
  {token,
   [token EXCEPT !.exp = token.exp - now],
   [token EXCEPT !.type = ""],
   [token EXCEPT !.sig = "other-key"]}

Presentable == UNION {Variants(token) : token \in Held}

KnownIds == {players[e].player_id : e \in EmailSet}

Idle == Response("none", 0, "")

(* Requests whose dependencies have been resolved and whose handler body *)
(* has not run yet.  FastAPI resolves a dependency declared with def in   *)
(* its thread pool and runs the async def handler body on the event loop, *)
(* where a body without await is not interrupted: other requests come     *)
(* between the two, never inside the body.                                *)
Slots == 1..MaxInflight
NoRequest == [busy |-> FALSE, token |-> NoToken, player |-> NoPlayer]
NoPending == [k \in Slots |-> NoRequest]

(* Balances stay within the explored range. *)
InRange(store) ==
  \A e \in EmailSet : store[e].balance <= MaxBalance

----------------------------------------------------------------------------
(* Actions: one per handler.  The server answers one request at a time:  *)
(* a handler runs when no response is pending, and Deliver hands the      *)
(* response to the client.                                                *)

Deliver ==
  /\ resp # Idle
  /\ resp' = Idle
  /\ UNCHANGED <<game_state, writable, pending, players, offers, missions, session, now>>

Login(email, password, role) ==
  LET r == login(players, [email |-> email, password |-> password, role |-> role], now) IN
  /\ resp = Idle
  /\ players' = r.players
  /\ resp' = r.resp
  /\ session' = IF r.resp.status = 200 /\ r.resp.access_token # NoToken
                THEN [session EXCEPT ![email] =
                        [access_token |-> r.resp.access_token,
                         refresh_token |-> r.resp.refresh_token]]
                ELSE session
  /\ UNCHANGED <<game_state, writable, pending, offers, missions, now>>

DecodeToken(token, token_type) ==
  LET d == decode_token(token, token_type, now) IN
  /\ resp = Idle
  /\ resp' = [Reply("decode_token", token, d.status, d.detail) EXCEPT
                !.expected = token_type, !.token = token]
  /\ UNCHANGED <<game_state, writable, pending, players, offers, missions, session, now>>

VerifyToken(token) ==
  /\ resp = Idle
  /\ resp' = verify_token(players, token, now)
  /\ UNCHANGED <<game_state, writable, pending, players, offers, missions, session, now>>

(* The client keeps the access token it receives. *)
Refresh(client, refresh_token) ==
  LET r == refresh(refresh_token, now) IN
  /\ resp = Idle
  /\ resp' = r
  /\ session' = IF r.status = 200
                THEN [session EXCEPT ![client].access_token = r.access_token]
                ELSE session
  /\ UNCHANGED <<game_state, writable, pending, players, offers, missions, now>>

(* The instants around the expiry of the tokens the clients hold. *)
Instants ==
  {token.exp + d : token \in Held \ {NoToken}, d \in {-1, 0, 1}}

(* Time passes until the next such instant. *)
Tick ==
  /\ resp = Idle
  /\ \E t \in Instants :
       /\ t > now
       /\ t <= Epoch + MaxDays * MinutesPerDay
       /\ \A u \in Instants : u > now => t <= u
       /\ now' = t
  /\ UNCHANGED <<game_state, writable, pending, players, offers, missions, session, resp>>

AssignRole(token, player_id, role, family) ==
  LET r == assign_role(players, token, player_id, role, family, now) IN
  /\ resp = Idle
  /\ players' = r.players
  /\ resp' = r.resp
  /\ UNCHANGED <<game_state, writable, pending, offers, missions, session, now>>

MarkPlayerDead(token) ==
  LET r == mark_player_dead(players, token, now) IN
  /\ resp = Idle
  /\ players' = r.players
  /\ resp' = r.resp
  /\ UNCHANGED <<game_state, writable, pending, offers, missions, session, now>>

EliminatePlayer(token, player_id) ==
  LET r == eliminate_player(players, token, player_id, now) IN
  /\ resp = Idle
  /\ players' = r.players
  /\ resp' = r.resp
  /\ UNCHANGED <<game_state, writable, pending, offers, missions, session, now>>

RevivePlayer(token, player_id) ==
  LET r == revive_player(players, token, player_id, now) IN
  /\ resp = Idle
  /\ players' = r.players
  /\ resp' = r.resp
  /\ UNCHANGED <<game_state, writable, pending, offers, missions, session, now>>

UpdatePlayerStats(token, player_id, alive) ==
  LET r == update_player_stats(players, token, player_id, NoneInt, NoneInt,
                               NoneInt, NoneInt, alive, now) IN
  /\ resp = Idle
  /\ players' = r.players
  /\ resp' = r.resp
  /\ UNCHANGED <<game_state, writable, pending, offers, missions, session, now>>

UpdateMoney(token, player_id, amount) ==
  LET r == update_money(players, token, player_id, amount, now) IN
  /\ resp = Idle
  /\ InRange(r.players)
  /\ players' = r.players
  /\ resp' = r.resp
  /\ UNCHANGED <<game_state, writable, pending, offers, missions, session, now>>

TransferMoney(token, to_player_id, amount) ==
  LET r == transfer_money(players, token, to_player_id, amount, now) IN
  /\ resp = Idle
  /\ InRange(r.players)
  /\ players' = r.players
  /\ resp' = r.resp
  /\ UNCHANGED <<game_state, writable, pending, offers, missions, session, now>>

PurchaseOffer(token, offer_id, hour, minute) ==
  LET r == purchase_offer(players, offers, token, offer_id, hour, minute, now) IN
  /\ resp = Idle
  /\ players' = r.players
  /\ offers' = r.offers
  /\ resp' = r.resp
  /\ UNCHANGED <<game_state, writable, pending, missions, session, now>>

(* POST /blackmarket/purchase in its two stages: the dependency reads the *)
(* player row, the handler body does the rest.                            *)
PurchaseResolve(k, token) ==
  LET who == get_current_player(players, token, now) IN
  /\ resp = Idle
  /\ ~pending[k].busy
  /\ IF who.ok
     THEN /\ pending' = [pending EXCEPT ![k] =
                           [busy |-> TRUE, token |-> token, player |-> who.player]]
          /\ resp' = resp
     ELSE /\ pending' = pending
          /\ resp' = Reply("purchase_offer", token, who.status, who.detail)
  /\ UNCHANGED <<game_state, writable, players, offers, missions, session, now>>

PurchaseBody(k, offer_id, hour, minute) ==
  LET r == purchase_offer_body(players, offers, pending[k].token, pending[k].player,
                               offer_id, hour, minute) IN
  /\ resp = Idle
  /\ pending[k].busy
  /\ players' = r.players
  /\ offers' = r.offers
  /\ resp' = r.resp
  /\ pending' = [pending EXCEPT ![k] = NoRequest]
  /\ UNCHANGED <<game_state, writable, missions, session, now>>

GetLeaderboard(token, limit) ==
  /\ resp = Idle
  /\ resp' = get_leaderboard(players, token, limit, now)
  /\ UNCHANGED <<game_state, writable, pending, players, offers, missions, session, now>>

UpdatePlayerScore(token, player_id) ==
  LET r == update_player_score(players, token, player_id, now) IN
  /\ resp = Idle
  /\ players' = r.players
  /\ resp' = r.resp
  /\ UNCHANGED <<game_state, writable, pending, offers, missions, session, now>>

GetAllOffersAdmin(token) ==
  /\ resp = Idle
  /\ resp' = get_all_offers_admin(players, offers, token, now)
  /\ UNCHANGED <<game_state, writable, pending, players, offers, missions, session, now>>

GetOffers(token, hour, minute) ==
  /\ resp = Idle
  /\ resp' = get_offers(players, offers, token, hour, minute, now)
  /\ UNCHANGED <<game_state, writable, pending, players, offers, missions, session, now>>

CompleteMission(token, mission_id, request_player_id) ==
  LET r == complete_mission(players, missions, token, mission_id, request_player_id, now) IN
  /\ resp = Idle
  /\ InRange(r.players)
  /\ players' = r.players
  /\ missions' = r.missions
  /\ resp' = r.resp
  /\ UNCHANGED <<game_state, writable, pending, offers, session, now>>

GetTodayMissions(token, hour) ==
  /\ resp = Idle
  /\ resp' = [get_today_missions(players, missions, game_state, token, hour, now)
               EXCEPT !.hour = hour]
  /\ UNCHANGED <<game_state, writable, pending, players, offers, missions, session, now>>

(* hour is the hour of the clock when the request arrives; the handler *)
(* does not read it                                                    *)
GetAllMissions(token, day, hour) ==
  /\ resp = Idle
  /\ resp' = [get_all_missions_for_player(players, missions, game_state, token, day, now)
               EXCEPT !.hour = hour]
  /\ UNCHANGED <<game_state, writable, pending, players, offers, missions, session, now>>

GetAllMissionsAdmin(token) ==
  /\ resp = Idle
  /\ resp' = get_all_missions_admin(players, missions, token, now)
  /\ UNCHANGED <<game_state, writable, pending, players, offers, missions, session, now>>

CreateMission(token, request) ==
  LET r == create_mission(players, missions, token, request, now) IN
  /\ resp = Idle
  /\ Len(r.missions) <= MaxMissions
  /\ missions' = r.missions
  /\ resp' = r.resp
  /\ UNCHANGED <<game_state, writable, pending, players, offers, session, now>>

AddMission(token, request) ==
  LET r == add_new_mission(missions, token, request, now) IN
  /\ resp = Idle
  /\ Len(r.missions) <= MaxMissions
  /\ missions' = r.missions
  /\ resp' = r.resp
  /\ UNCHANGED <<game_state, writable, pending, players, offers, session, now>>

ClearMissions(token) ==
  LET r == clear_all_missions(missions, token, now) IN
  /\ resp = Idle
  /\ missions' = r.missions
  /\ resp' = r.resp
  /\ UNCHANGED <<game_state, writable, pending, players, offers, session, now>>

SetGameDay(token, day) ==
  LET r == set_game_day(game_state, token, day, now) IN
  /\ resp = Idle
  /\ game_state' = r.state
  /\ resp' = r.resp
  /\ UNCHANGED <<writable, pending, players, offers, missions, session, now>>

SetUnlockHour(token, hour) ==
  LET r == set_unlock_hour(game_state, token, hour, now) IN
  /\ resp = Idle
  /\ game_state' = r.state
  /\ resp' = r.resp
  /\ UNCHANGED <<writable, pending, players, offers, missions, session, now>>

(* The owner of the spreadsheet grants or withdraws the service account's *)
(* right to edit it.                                                      *)
SheetAccess(w) ==
  /\ resp = Idle
  /\ writable # w
  /\ writable' = w
  /\ UNCHANGED <<game_state, pending, players, offers, missions, session, now, resp>>

----------------------------------------------------------------------------
(* Initial sheets *)

NewRow(email, player_id, assigned_role, family, balance) ==
  [NoPlayer EXCEPT !.player_id = player_id, !.email = email,
     !.password = StoredPassword, !.assigned_role = assigned_role,
     !.family = family, !.balance = balance, !.alive = StrTRUE,
     !.registered = StrFALSE,
     !.individual_score = calculate_individual_score(balance, 0, 0, 0, 0)]

(* identifiers written by populate_sheets.py (uuid4 strings), and numbers *)
(* typed into the sheet                                                   *)
PopulatedId(i) == UuidBase + i
SheetId(i) == i

(* A row an administrator keeps by hand: numeric identifier, role set. *)
SheetRow(email, player_id, role, family, balance) ==
  [NewRow(email, player_id, role, family, balance) EXCEPT !.role = role]

InitialOffers ==
  <<[offer_id |-> 1, item_name |-> "Revolver", quantity_available |-> 1, price |-> 2]>>

InitialMissions ==
  <<[mission_id |-> 1, status |-> "available", reward_md |-> 1,
     reward_item |-> "", day |-> 1, completed_by |-> NoId,
     visibility |-> "public", assigned_family |-> "all",
     assigned_role |-> "all", assigned_to |-> NoId]>>

(* The first two rows of the missions sheet as populate_sheets.py writes *)
(* them.                                                                  *)
PopulatedMissions ==
  <<[mission_id |-> 1, status |-> "available", reward_md |-> 1,
     reward_item |-> "", day |-> 1, completed_by |-> NoId,
     visibility |-> "public", assigned_family |-> "all",
     assigned_role |-> "all", assigned_to |-> NoId],
    [mission_id |-> 2, status |-> "available", reward_md |-> 1,
     reward_item |-> "Secret Letter", day |-> 1, completed_by |-> NoId,
     visibility |-> "public", assigned_family |-> "all",
     assigned_role |-> "all", assigned_to |-> NoId]>>

(* A row as populate_sheets.py leaves it (identifier, no role), as a sheet *)
(* without identifiers has it, with a role pre-assigned by email, or kept  *)
(* by hand with a numeric identifier.                                      *)
InitialRows(i) ==
  {NewRow(Emails[i], PopulatedId(i), "", "", 0),
   NewRow(Emails[i], NoId, "", "", 0),
   NewRow(Emails[i], SheetId(i), "", "", 0),
   SheetRow(Emails[i], SheetId(i), "Don", "Corleone", 0)}
  \cup {NewRow(Emails[i], NoId, r, "Corleone", 0) : r \in Roles}

----------------------------------------------------------------------------
(* SpecLogin: the login state machine of one player, next to a row that  *)
(* populate_sheets.py wrote and nobody acts on, driven by the player,     *)
(* a stranger and the administrator.                                      *)

Player1 == Emails[1]
Player2 == Emails[2]

InitLogin ==
  /\ writable = TRUE
  /\ game_state = InitialGameState
  /\ players \in {st \in [EmailSet -> InitialRows(1) \cup InitialRows(2)] :
                    /\ st[Player1] \in InitialRows(1)
                    /\ st[Player2] = NewRow(Player2, PopulatedId(2), "", "", 0)}
  /\ offers = InitialOffers
  /\ missions = InitialMissions
  /\ session = [c \in Clients |-> NoSession]
  /\ now = Epoch
  /\ resp = Idle
  /\ pending = NoPending

LoginEmails == {Player1, UnknownEmail, ADMIN_USERNAME}
LoginTargets == {players[Player1].player_id, AdminUuid}

NextLogin ==
  \/ \E email \in LoginEmails, password \in RequestPasswords, role \in RequestRoles :
        Login(email, password, role)
  \/ \E token \in Presentable, kind \in Kinds \cup {NoKind} : DecodeToken(token, kind)
  \/ \E token \in Held, id \in StrIds(LoginTargets), role \in Roles \cup {NoRole},
          family \in Families :
        AssignRole(token, id, role, family)
  \/ \E token \in Held : MarkPlayerDead(token)
  \/ \E token \in Held, id \in IntIds(LoginTargets) : EliminatePlayer(token, id)
  \/ \E token \in Held, id \in IntIds(LoginTargets) : RevivePlayer(token, id)
  \/ Deliver

SpecLogin == InitLogin /\ [][NextLogin]_vars

----------------------------------------------------------------------------
(* Spec: the game in progress.  The first player has claimed an identity *)
(* by a first login, the second is a row kept by hand with a numeric      *)
(* identifier, and both and the administrator have logged in; the initial *)
(* sheet and the tokens the clients hold are what login produced.         *)

ClaimRequest(i) ==
  [email |-> Emails[i], password |-> StoredPassword,
   role |-> IF i = 1 THEN "Don" ELSE "Soldier"]

AssignedSheet(b1, b2) ==
  [e \in EmailSet |->
     IF e = Player1 THEN NewRow(e, NoId, "Don", "Corleone", b1)
     ELSE SheetRow(e, SheetId(2), "Soldier", "Corleone", b2)]

AfterFirstLogins(b1, b2) ==
  LET r1 == login(AssignedSheet(b1, b2), ClaimRequest(1), Epoch)
      r2 == login(r1.players, ClaimRequest(2), Epoch)
      ra == login(r2.players,
                  [email |-> ADMIN_USERNAME, password |-> ADMIN_PASSWORD,
                   role |-> "Godfather"], Epoch)
      Pair(r) == [access_token |-> r.resp.access_token,
                  refresh_token |-> r.resp.refresh_token]
  IN [players |-> ra.players,
      session |-> [c \in Clients |->
                     IF c = Player1 THEN Pair(r1)
                     ELSE IF c = Player2 THEN Pair(r2) ELSE Pair(ra)]]

Init ==
  /\ writable = TRUE
  /\ game_state = InitialGameState
  /\ \E b1 \in 0..MaxBalance, b2 \in 0..MaxBalance :
       /\ players = AfterFirstLogins(b1, b2).players
       /\ session = AfterFirstLogins(b1, b2).session
  /\ offers = InitialOffers
  /\ missions = InitialMissions
  /\ now = Epoch
  /\ resp = Idle
  /\ pending = NoPending

(* Tokens presented to the player endpoints: every token a client holds *)
(* and the variants of the first player's access token.  The admin        *)
(* endpoints are tried with the administrator's tokens and one player's.  *)
Presented == Held \cup Variants(session[Player1].access_token)

AdminPresented ==
  {session[ADMIN_USERNAME].access_token, session[ADMIN_USERNAME].refresh_token,
   session[Player1].access_token}

OpenTime == <<23, 11>>
ClosedTime == <<23, 10>>
Amounts == 0..MaxAmount
Deltas == (0 - MaxAmount)..MaxAmount

Next ==
  \/ \E token \in Presented, to \in IntIds(KnownIds), amount \in Amounts :
        TransferMoney(token, to, amount)
  \/ \E token \in Presented, offer_id \in {1, 2}, time \in {OpenTime, ClosedTime} :
        PurchaseOffer(token, offer_id, time[1], time[2])
  \/ \E token \in Presented, mission_id \in {1, 2}, id \in {NoId} \cup IntIds(KnownIds) :
        CompleteMission(token, mission_id, id)
  \/ \E token \in AdminPresented, id \in StrIds(KnownIds), amount \in Deltas :
        UpdateMoney(token, id, amount)
  \/ Deliver

Spec == Init /\ [][Next]_vars

----------------------------------------------------------------------------
(* SpecAlive: the same game, with the three ways of eliminating a player *)
(* (self mark-dead, admin eliminate, admin update-stats), revival, and    *)
(* the purchases and transfers of the players.                            *)

InitAlive ==
  /\ writable = TRUE
  /\ game_state = InitialGameState
  /\ \E b1 \in 0..MaxBalance :
       /\ players = AfterFirstLogins(b1, 0).players
       /\ session = AfterFirstLogins(b1, 0).session
  /\ offers = InitialOffers
  /\ missions = InitialMissions
  /\ now = Epoch
  /\ resp = Idle
  /\ pending = NoPending

PresentedAlive ==
  {session[Player1].access_token, session[Player1].refresh_token,
   session[Player2].access_token}

AdminAlive == {session[ADMIN_USERNAME].access_token, session[Player1].access_token}

NextAlive ==
  \/ \E token \in PresentedAlive : MarkPlayerDead(token)
  \/ \E token \in AdminAlive, id \in IntIds(KnownIds) : EliminatePlayer(token, id)
  \/ \E token \in AdminAlive, id \in IntIds(KnownIds) : RevivePlayer(token, id)
  \/ \E token \in AdminAlive, id \in StrIds(KnownIds), alive \in {NoneBool, PyTrue, PyFalse} :
        UpdatePlayerStats(token, id, alive)
  \/ \E token \in PresentedAlive, to \in IntIds(KnownIds), amount \in Amounts :
        TransferMoney(token, to, amount)
  \/ \E token \in PresentedAlive, offer_id \in {1, 2}, time \in {OpenTime, ClosedTime} :
        PurchaseOffer(token, offer_id, time[1], time[2])
  \/ Deliver

SpecAlive == InitAlive /\ [][NextAlive]_vars

----------------------------------------------------------------------------
(* SpecMission: the missions sheet as populated, completed by the two    *)
(* players and by the administrator on their behalf.                     *)

MissionIds == {PopulatedMissions[i].mission_id : i \in DOMAIN PopulatedMissions}

InitMission ==
  /\ writable = TRUE
  /\ game_state = InitialGameState
  /\ \E b1 \in 0..MaxBalance, b2 \in 0..MaxBalance :
       /\ players = AfterFirstLogins(b1, b2).players
       /\ session = AfterFirstLogins(b1, b2).session
  /\ offers = InitialOffers
  /\ missions = PopulatedMissions
  /\ now = Epoch
  /\ resp = Idle
  /\ pending = NoPending

NextMission ==
  \/ \E token \in Presented, mission_id \in MissionIds \cup {3},
         id \in {NoId} \cup IntIds(KnownIds) :
        CompleteMission(token, mission_id, id)
  \/ Deliver

SpecMission == InitMission /\ [][NextMission]_vars

----------------------------------------------------------------------------
(* SpecOutage: the game while the spreadsheet can become read-only.  The *)
(* first player has a role assigned and has not logged in yet, the       *)
(* second and the administrator have.                                    *)

BeforeFirstLogin(b1, b2) ==
  LET r2 == login(AssignedSheet(b1, b2), ClaimRequest(2), Epoch)
      ra == login(r2.players,
                  [email |-> ADMIN_USERNAME, password |-> ADMIN_PASSWORD,
                   role |-> "Godfather"], Epoch)
      Pair(r) == [access_token |-> r.resp.access_token,
                  refresh_token |-> r.resp.refresh_token]
  IN [players |-> ra.players,
      session |-> [c \in Clients |->
                     IF c = Player1 THEN NoSession
                     ELSE IF c = Player2 THEN Pair(r2) ELSE Pair(ra)]]

InitOutage ==
  /\ writable = TRUE
  /\ game_state = InitialGameState
  /\ players = BeforeFirstLogin(0, 1).players
  /\ session = BeforeFirstLogin(0, 1).session
  /\ offers = InitialOffers
  /\ missions = InitialMissions
  /\ now = Epoch
  /\ resp = Idle
  /\ pending = NoPending

AccessTokens == {session[c].access_token : c \in Clients}

NextOutage ==
  \/ \E w \in BOOLEAN : SheetAccess(w)
  \/ Login(Player1, StoredPassword, "Don")
  \/ \E token \in AccessTokens, to \in IntIds(KnownIds) :
        TransferMoney(token, to, 1)
  \/ \E token \in AccessTokens : PurchaseOffer(token, 1, OpenTime[1], OpenTime[2])
  \/ \E token \in AccessTokens : CompleteMission(token, 1, NoId)
  \/ \E token \in AccessTokens, id \in StrIds(KnownIds) : UpdateMoney(token, id, 1)
  \/ \E token \in AccessTokens, id \in StrIds(KnownIds) :
        UpdatePlayerStats(token, id, NoneBool)
  \/ \E token \in AccessTokens, id \in IntIds(KnownIds) : EliminatePlayer(token, id)
  \/ \E token \in AccessTokens, id \in IntIds(KnownIds) : RevivePlayer(token, id)
  \/ \E token \in AccessTokens, id \in StrIds(KnownIds) :
        AssignRole(token, id, "Don", "Corleone")
  \/ Deliver

SpecOutage == InitOutage /\ [][NextOutage]_vars

----------------------------------------------------------------------------
(* SpecToken: the tokens of the logged-in clients as time passes, being  *)
(* validated and refreshed.                                               *)

InitToken ==
  /\ writable = TRUE
  /\ game_state = InitialGameState
  /\ players = AfterFirstLogins(0, 0).players
  /\ session = AfterFirstLogins(0, 0).session
  /\ offers = InitialOffers
  /\ missions = InitialMissions
  /\ now = Epoch
  /\ resp = Idle
  /\ pending = NoPending

NextToken ==
  \/ Tick
  \/ \E token \in Presentable : Refresh(Player1, token)
  \/ \E token \in Presentable, kind \in Kinds \cup {NoKind} : DecodeToken(token, kind)
  \/ \E token \in Presentable : VerifyToken(token)
  \/ Deliver

SpecToken == InitToken /\ [][NextToken]_vars

----------------------------------------------------------------------------
(* SpecLifetime: the first player logs in again from time to time and    *)
(* presents the tokens it holds, as issued, until after they expire.     *)

OwnTokens == {session[Player1].access_token, session[Player1].refresh_token}

NextLifetime ==
  \/ Tick
  \/ Login(Player1, StoredPassword, "Don")
  \/ \E token \in OwnTokens, kind \in Kinds : DecodeToken(token, kind)
  \/ Deliver

SpecLifetime == InitToken /\ [][NextLifetime]_vars

----------------------------------------------------------------------------
(* SpecMarket: the black market with several purchase requests in flight. *)

StockedOffers(q) == [InitialOffers EXCEPT ![1].quantity_available = q]

InitMarket ==
  /\ writable = TRUE
  /\ game_state = InitialGameState
  /\ \E b1 \in 0..MaxBalance, b2 \in 0..MaxBalance :
       /\ players = AfterFirstLogins(b1, b2).players
       /\ session = AfterFirstLogins(b1, b2).session
  /\ offers \in {StockedOffers(q) : q \in 0..MaxStock}
  /\ missions = InitialMissions
  /\ now = Epoch
  /\ resp = Idle
  /\ pending = NoPending

PresentedMarket ==
  {session[Player1].access_token, session[Player2].access_token,
   [session[Player1].access_token EXCEPT !.sig = "other-key"]}

NextMarket ==
  \/ \E k \in Slots, token \in PresentedMarket : PurchaseResolve(k, token)
  \/ \E k \in Slots, offer_id \in {1, 2}, time \in {OpenTime, ClosedTime} :
        PurchaseBody(k, offer_id, time[1], time[2])
  \/ Deliver

SpecMarket == InitMarket /\ [][NextMarket]_vars

----------------------------------------------------------------------------
(* SpecScore: the score calculator.  The first player's row carries any *)
(* balance and statistics an administrator can have typed into the      *)
(* sheet, and the administrator asks for the scores to be recalculated. *)

Stats == 0..MaxStat

TypedStats(row, missions_completed, puzzles_solved, kills_made, influence_points) ==
  [row EXCEPT !.missions_completed = missions_completed,
              !.puzzles_solved = puzzles_solved,
              !.kills_made = kills_made,
              !.influence_points = influence_points]

InitScore ==
  /\ writable = TRUE
  /\ game_state = InitialGameState
  /\ \E b1 \in {0, MaxBalance} :
       LET logged_in == AfterFirstLogins(b1, 0) IN
       /\ session = logged_in.session
       /\ \E m \in Stats, p \in {0, MaxStat}, k \in Stats, i \in {0, MaxStat} :
            players = [logged_in.players EXCEPT
                         ![Player1] = TypedStats(@, m, p, k, i)]
  /\ offers = InitialOffers
  /\ missions = InitialMissions
  /\ now = Epoch
  /\ resp = Idle
  /\ pending = NoPending

NextScore ==
  \/ \E token \in AdminPresented, id \in StrIds(KnownIds) : UpdatePlayerScore(token, id)
  \/ Deliver

SpecScore == InitScore /\ [][NextScore]_vars

----------------------------------------------------------------------------
(* SpecLeaderboard: the leaderboard while players are eliminated (by    *)
(* themselves or by the administrator) and revived.                     *)

Limits == {0, 1, 2}

InitLeaderboard ==
  /\ writable = TRUE
  /\ game_state = InitialGameState
  /\ \E b1 \in 0..MaxBalance, b2 \in {1} :
       /\ players = AfterFirstLogins(b1, b2).players
       /\ session = AfterFirstLogins(b1, b2).session
  /\ offers = InitialOffers
  /\ missions = InitialMissions
  /\ now = Epoch
  /\ resp = Idle
  /\ pending = NoPending

NextLeaderboard ==
  \/ \E token \in PresentedAlive : MarkPlayerDead(token)
  \/ \E token \in AdminAlive, id \in IntIds(KnownIds) : EliminatePlayer(token, id)
  \/ \E token \in AdminAlive, id \in IntIds(KnownIds) : RevivePlayer(token, id)
  \/ \E token \in PresentedAlive, limit \in Limits : GetLeaderboard(token, limit)
  \/ Deliver

SpecLeaderboard == InitLeaderboard /\ [][NextLeaderboard]_vars

----------------------------------------------------------------------------
(* SpecGate: the black market around its opening and closing times, with *)
(* purchases and listings at clock readings on both sides of each.       *)

SecondsPerDay == 24 * 60 * 60
Noon == 12 * 60 * 60

GateClock ==
  {0, 11 * 60 - 1, 11 * 60, Noon, (23 * 60 + 11) * 60 - 1, (23 * 60 + 11) * 60,
   SecondsPerDay - 1}

(* the first player can or cannot pay for the one offer, which is in *)
(* stock or sold out                                                *)
InitGate ==
  /\ writable = TRUE
  /\ game_state = InitialGameState
  /\ \E b1 \in {0, InitialOffers[1].price} :
       /\ players = AfterFirstLogins(b1, 0).players
       /\ session = AfterFirstLogins(b1, 0).session
  /\ offers \in {StockedOffers(q) : q \in {0, 1}}
  /\ missions = InitialMissions
  /\ now = Epoch
  /\ resp = Idle
  /\ pending = NoPending

NextGate ==
  \/ \E k \in Slots, token \in PresentedMarket : PurchaseResolve(k, token)
  \/ \E k \in Slots, offer_id \in {1, 2}, clock \in GateClock :
        PurchaseBody(k, offer_id, hour_of(clock), minute_of(clock))
  \/ \E token \in PresentedMarket, clock \in GateClock :
        GetOffers(token, hour_of(clock), minute_of(clock))
  \/ Deliver

SpecGate == InitGate /\ [][NextGate]_vars

----------------------------------------------------------------------------
(* SpecBoard: the mission board.  A Don of one family, a soldier of      *)
(* another and the administrator have logged in; the first mission of    *)
(* the sheet is any mission an administrator can have written, the       *)
(* second a family mission of a later day.                               *)

BoardFamilies == {"Corleone", "Tattaglia"}

BoardSheet ==
  [e \in EmailSet |->
     IF e = Player1 THEN NewRow(e, NoId, "Don", "Corleone", 0)
     ELSE SheetRow(e, SheetId(2), "Soldier", "Tattaglia", 0)]

BoardLogins ==
  LET r1 == login(BoardSheet, ClaimRequest(1), Epoch)
      r2 == login(r1.players, ClaimRequest(2), Epoch)
      ra == login(r2.players,
                  [email |-> ADMIN_USERNAME, password |-> ADMIN_PASSWORD,
                   role |-> "Godfather"], Epoch)
      Pair(r) == [access_token |-> r.resp.access_token,
                  refresh_token |-> r.resp.refresh_token]
  IN [players |-> ra.players,
      session |-> [c \in Clients |->
                     IF c = Player1 THEN Pair(r1)
                     ELSE IF c = Player2 THEN Pair(r2) ELSE Pair(ra)]]

Visibilities == {"public", "private", "family", ""}

BoardMission(visibility, assigned_family, assigned_role, assigned_to) ==
  [mission_id |-> 1, status |-> "available", reward_md |-> 1,
   reward_item |-> "", day |-> 1, completed_by |-> NoId,
   visibility |-> visibility, assigned_family |-> assigned_family,
   assigned_role |-> assigned_role, assigned_to |-> assigned_to]

FamilyMission ==
  [mission_id |-> 2, status |-> "available", reward_md |-> 1,
   reward_item |-> "", day |-> 2, completed_by |-> NoId,
   visibility |-> "family", assigned_family |-> "Tattaglia",
   assigned_role |-> "all", assigned_to |-> NoId]

InitBoard ==
  /\ writable = TRUE
  /\ game_state = InitialGameState
  /\ players = BoardLogins.players
  /\ session = BoardLogins.session
  /\ offers = InitialOffers
  /\ \E visibility \in Visibilities, assigned_family \in BoardFamilies \cup {"all"},
        assigned_role \in {"Soldier", "all"}, assigned_to \in {NoId, SheetId(2)} :
       missions = <<BoardMission(visibility, assigned_family, assigned_role, assigned_to),
                    FamilyMission>>
  /\ now = Epoch
  /\ resp = Idle
  /\ pending = NoPending

BoardPresented ==
  {session[c].access_token : c \in Clients}
    \cup {[session[Player1].access_token EXCEPT !.sig = "other-key"]}

(* the hour before the default unlock hour, and the unlock hour *)
BoardHours == {DefaultUnlockHour - 1, DefaultUnlockHour}
UnlockHours == {DefaultUnlockHour + 1, 24}
BoardDays == {1, 2}

(* the missions a Don and an administrator ask for *)
MissionRequests ==
  {[reward_md |-> 1, day |-> 1, visibility |-> "family",
    assigned_family |-> "Corleone", assigned_role |-> "all", assigned_to |-> NoId],
   [reward_md |-> 1, day |-> 2, visibility |-> "public",
    assigned_family |-> "all", assigned_role |-> "Soldier", assigned_to |-> NoId]}

AddMissionRequests ==
  {[reward_md |-> 1, day |-> 1, visibility |-> "public",
    assigned_family |-> "Corleone", assigned_role |-> "all"]}

NextBoard ==
  \/ \E token \in BoardPresented, hour \in BoardHours : GetTodayMissions(token, hour)
  \/ \E token \in BoardPresented, day \in BoardDays \cup {NoneInt}, hour \in BoardHours :
        GetAllMissions(token, day, hour)
  \/ \E token \in BoardPresented : GetAllMissionsAdmin(token)
  \/ \E token \in BoardPresented : GetAllOffersAdmin(token)
  \/ \E token \in BoardPresented, request \in MissionRequests :
        CreateMission(token, request)
  \/ \E token \in BoardPresented, request \in AddMissionRequests :
        AddMission(token, request)
  \/ \E token \in BoardPresented : ClearMissions(token)
  \/ \E token \in BoardPresented, day \in BoardDays : SetGameDay(token, day)
  \/ \E token \in BoardPresented, hour \in UnlockHours : SetUnlockHour(token, hour)
  \/ Deliver

SpecBoard == InitBoard /\ [][NextBoard]_vars

----------------------------------------------------------------------------
(* Vocabulary of the claims *)

(* alive stored as the native false or as the string "FALSE" *)
Eliminated(player) == player.alive \in {StrFALSE, PyFalse}
Alive(player) == player.alive \in {StrTRUE, PyTrue}

Unassigned(player) == player.assigned_role = ""
Unclaimed(player) == player.player_id = NoId
AssignedUnclaimed(player) == ~Unassigned(player) /\ Unclaimed(player)

(* a token some validation of the token service accepts *)
Usable(token) == \E kind \in Kinds \cup {NoKind} : decode_token(token, kind, now).ok

NoTokenIssued(response) ==
  response.access_token = NoToken /\ response.refresh_token = NoToken

Carries(token, kind, player) ==
  /\ token.type = kind
  /\ token.player_id = player.player_id
  /\ token.role = player.role
  /\ token.family = player.family
  /\ decode_token(token, kind, now).ok

----------------------------------------------------------------------------
(* C1: decode_token(token, expected_kind) with expected_kind access or    *)
(* refresh accepts a validly signed, unexpired token that carries a type  *)
(* claim only if the claim equals expected_kind, and rejects the wrong    *)
(* kind with status 401 and the wrong-kind error.                         *)
C1_WrongKindIsRejectedAsWrongKind ==
  (/\ resp.op = "decode_token"
   /\ resp.expected \in Kinds
   /\ jwt_decode(resp.token, now).ok
   /\ resp.token.type \in Kinds)
  => /\ resp.status = 200 => resp.token.type = resp.expected
     /\ resp.token.type # resp.expected =>
          resp.status = 401 /\ resp.detail = "Invalid token type. Expected {token_type} token"

(* C2: a request that presents a token with type = refresh to an endpoint *)
(* that requires an access token (transfer, purchase, mission, admin      *)
(* tools) is rejected and changes no state.                               *)
C2_RefreshTokenIsRejected ==
  [][(resp' # Idle /\ resp'.presented = "refresh")
       => /\ resp'.status # 200
          /\ players' = players /\ offers' = offers /\ missions' = missions]_vars

(* C3: first login with a role.  For a player with an assigned role, no   *)
(* player_id, the correct password and alive: the assigned role claims    *)
(* the identity (new non-empty player_id, role := assigned_role,          *)
(* registered, an access and a refresh token for it); any other role      *)
(* fails with 403 role mismatch, no token, record unchanged.              *)
C3_FirstLoginWithRole ==
  [][\A password \in RequestPasswords, role \in RequestRoles \ {NoRole} :
       LET before == players[Player1]
           after == players'[Player1]
       IN (/\ AssignedUnclaimed(before) /\ Alive(before)
           /\ password = before.password
           /\ Login(Player1, password, role))
          => IF role = before.assigned_role
             THEN /\ after.player_id # NoId
                  /\ after.player_id \notin {players[e].player_id : e \in EmailSet}
                  /\ after = [before EXCEPT !.player_id = after.player_id,
                                            !.role = before.assigned_role,
                                            !.registered = StrTRUE]
                  /\ players'[Player2] = players[Player2]
                  /\ resp'.status = 200
                  /\ Carries(resp'.access_token, "access", after)
                  /\ Carries(resp'.refresh_token, "refresh", after)
             ELSE /\ resp'.status = 403
                  /\ resp'.detail = "You are assigned the role '{assigned_role}'. Please select the correct role."
                  /\ NoTokenIssued(resp')
                  /\ players' = players /\ session' = session]_vars

C3_Witness ==
  /\ resp.op = "login" /\ resp.status = 200
  /\ players[Player1].registered = StrTRUE
  /\ players[Player1].player_id \notin {NoId, PopulatedId(1)}
  /\ players[Player1].role = players[Player1].assigned_role
  /\ resp.access_token.player_id = players[Player1].player_id

(* C4: first login without a role (assigned role, no player_id, correct   *)
(* password, alive) answers without error with is_first_login and the     *)
(* assigned role, carries no usable token and leaves the record as it is. *)
C4_FirstLoginWithoutRole ==
  [][\A password \in RequestPasswords :
       LET before == players[Player1] IN
       (/\ AssignedUnclaimed(before) /\ Alive(before)
        /\ password = before.password
        /\ Login(Player1, password, NoRole))
       => /\ resp'.status = 200
          /\ resp'.is_first_login
          /\ resp'.assigned_role = before.assigned_role
          /\ ~Usable(resp'.access_token) /\ ~Usable(resp'.refresh_token)
          /\ players' = players /\ session' = session
          /\ AssignedUnclaimed(players'[Player1])]_vars

C4_Witness ==
  /\ resp.op = "login" /\ resp.status = 200 /\ resp.is_first_login
  /\ resp.assigned_role \in Roles
  /\ AssignedUnclaimed(players[Player1])

(* C5: repeat login of a claimed player succeeds only with a role equal   *)
(* to the stored role, character for character; otherwise no token.  The  *)
(* tokens carry the stored player_id, role and family, the record is      *)
(* unchanged, and no step ever changes a player_id once set.              *)
C5_RepeatLogin ==
  [][/\ \A password \in RequestPasswords, role \in RequestRoles :
          LET before == players[Player1] IN
          (~Unclaimed(before) /\ Login(Player1, password, role))
          => /\ resp'.status = 200 => (role # NoRole /\ role = before.role)
             /\ resp'.status # 200 => (NoTokenIssued(resp') /\ session' = session)
             /\ resp'.status = 200 =>
                  /\ Carries(resp'.access_token, "access", before)
                  /\ Carries(resp'.refresh_token, "refresh", before)
             /\ players' = players
     /\ \A e \in EmailSet :
          ~Unclaimed(players[e]) => players'[e].player_id = players[e].player_id]_vars

C5_Witness ==
  /\ resp.op = "login" /\ resp.status = 200
  /\ players[Player1].player_id = PopulatedId(1)
  /\ Carries(resp.access_token, "access", players[Player1])
  /\ players[Player1].family # ""

(* C6: a login whose player has no assigned role fails with the           *)
(* pending-approval error, and no login ever takes a player out of the    *)
(* unassigned state.                                                      *)
C6_UnassignedLoginIsPending ==
  [][\A password \in RequestPasswords, role \in RequestRoles :
       LET before == players[Player1] IN
       (/\ Unassigned(before) /\ password = before.password
        /\ Login(Player1, password, role))
       => /\ resp'.status = 403
          /\ resp'.detail = "Your account is pending admin approval. Please contact the admin to assign you a family and role."
          /\ NoTokenIssued(resp')
          /\ players' = players]_vars

(* C6 as the code has it: an unassigned player never obtains a token and  *)
(* no login changes the record; with the correct password the answer is   *)
(* 403 pending approval when the player is alive and 403 eliminated when  *)
(* the player is eliminated; with a wrong password it is 401.             *)
C6_UnassignedLoginNeverSucceeds ==
  [][\A password \in RequestPasswords, role \in RequestRoles :
       LET before == players[Player1] IN
       (Unassigned(before) /\ Login(Player1, password, role))
       => /\ resp'.status # 200
          /\ NoTokenIssued(resp')
          /\ players' = players /\ session' = session
          /\ (password = before.password /\ Alive(before)) =>
               /\ resp'.status = 403
               /\ resp'.detail = "Your account is pending admin approval. Please contact the admin to assign you a family and role."
          /\ (password = before.password /\ Eliminated(before)) =>
               /\ resp'.status = 403
               /\ resp'.detail = "Your character has been eliminated from the game"
          /\ password # before.password =>
               /\ resp'.status = 401
               /\ resp'.detail = "Invalid email or password"]_vars

C6_Witness ==
  /\ resp.op = "login" /\ resp.status = 403
  /\ resp.detail = "Your account is pending admin approval. Please contact the admin to assign you a family and role."
  /\ Unassigned(players[Player1]) /\ Alive(players[Player1])

(* C7: a login for an eliminated player fails with the eliminated error   *)
(* and issues no token, whatever the password.                            *)
C7_EliminatedLoginIsRejected ==
  [][\A password \in RequestPasswords, role \in RequestRoles :
       (Eliminated(players[Player1]) /\ Login(Player1, password, role))
       => /\ resp'.status = 403
          /\ resp'.detail = "Your character has been eliminated from the game"
          /\ NoTokenIssued(resp')]_vars

(* C7 as the code has it: an eliminated player gets no token whatever the *)
(* password; the error is 403 eliminated with the correct password and    *)
(* 401 invalid credentials with a wrong one (the password is checked      *)
(* first).                                                                *)
C7_EliminatedLoginGetsNoToken ==
  [][\A password \in RequestPasswords, role \in RequestRoles :
       LET before == players[Player1] IN
       (Eliminated(before) /\ Login(Player1, password, role))
       => /\ resp'.status # 200
          /\ NoTokenIssued(resp')
          /\ players' = players /\ session' = session
          /\ password = before.password =>
               /\ resp'.status = 403
               /\ resp'.detail = "Your character has been eliminated from the game"
          /\ password # before.password =>
               /\ resp'.status = 401
               /\ resp'.detail = "Invalid email or password"]_vars

C7_Witness ==
  /\ resp.op = "login" /\ resp.status = 403
  /\ resp.detail = "Your character has been eliminated from the game"
  /\ Eliminated(players[Player1])
  /\ ~Unassigned(players[Player1])

(* C8: a purchase or a transfer whose acting player is eliminated is      *)
(* rejected and changes no state.                                         *)
C8_EliminatedCannotTrade ==
  [][\A token \in PresentedAlive :
       LET i == get_player_by_id(players, token.player_id) IN
       (i # NoRow /\ Eliminated(players[Emails[i]]))
       => /\ \A to_player_id \in IntIds(KnownIds), amount \in Amounts :
               TransferMoney(token, to_player_id, amount)
               => resp'.status # 200 /\ players' = players
          /\ \A offer_id \in {1, 2}, time \in {OpenTime, ClosedTime} :
               PurchaseOffer(token, offer_id, time[1], time[2])
               => /\ resp'.status # 200
                  /\ players' = players /\ offers' = offers]_vars

(* C9: no sequence of requests leaves any player's balance below 0.       *)
C9_BalancesNonNegative == \A e \in EmailSet : players[e].balance >= 0

(* C10: a transfer whose amount exceeds the sender's balance fails with   *)
(* the insufficient-funds error and changes neither balance.              *)
C10_OverdraftIsInsufficientFunds ==
  [][\A token \in PresentedAlive, to_player_id \in IntIds(KnownIds), amount \in Amounts :
       LET i == get_player_by_id(players, token.player_id) IN
       (/\ resp'.op = "transfer_money"
        /\ jwt_decode(token, now).ok
        /\ i # NoRow /\ amount > players[Emails[i]].balance
        /\ TransferMoney(token, to_player_id, amount))
       => /\ resp'.status = 400 /\ resp'.detail = "Insufficient funds"
          /\ players' = players]_vars

(* C10 as the code has it: a transfer of a positive amount above the      *)
(* sender's balance, between a sender and a recipient that both exist and *)
(* pass the alive check, fails with 400 insufficient funds; and whatever  *)
(* check rejects an overdrawing transfer, no balance changes.             *)
C10_OverdraftChangesNothing ==
  [][\A token \in PresentedAlive, to_player_id \in IntIds(KnownIds), amount \in Amounts :
       LET i == get_player_by_id(players, token.player_id)
           j == get_player_by_id(players, to_player_id)
       IN (/\ resp'.op = "transfer_money"
           /\ jwt_decode(token, now).ok
           /\ i # NoRow /\ amount > players[Emails[i]].balance
           /\ TransferMoney(token, to_player_id, amount))
          => /\ resp'.status # 200
             /\ players' = players
             /\ (/\ amount > 0 /\ j # NoRow
                 /\ Truthy(players[Emails[i]].alive)
                 /\ Truthy(players[Emails[j]].alive))
                => resp'.status = 400 /\ resp'.detail = "Insufficient funds"]_vars

C10_Witness ==
  /\ resp.op = "transfer_money" /\ resp.status = 400
  /\ resp.detail = "Insufficient funds"
  /\ resp.presented = "access"

MissionStatus(rows, mission_id) ==
  rows[FirstRow({i \in DOMAIN rows : rows[i].mission_id = mission_id})].status

(* C12: a mission is completed exactly once: a complete request that     *)
(* succeeds finds the mission available and leaves it completed, so no   *)
(* second request for it succeeds; a completed mission never returns to  *)
(* available; and a request that is rejected changes no balance and no   *)
(* missions_completed count.                                             *)
C12_MissionCompletedExactlyOnce ==
  [][/\ (resp = Idle /\ resp'.op = "complete_mission" /\ resp'.status = 200)
          => /\ MissionStatus(missions, resp'.mission_id) = "available"
             /\ MissionStatus(missions', resp'.mission_id) = "completed"
     /\ \A i \in DOMAIN missions :
          missions[i].status = "completed" => missions'[i].status = "completed"
     /\ (resp = Idle /\ resp'.op = "complete_mission" /\ resp'.status # 200)
          => players' = players]_vars

(* C13: after every completed operation the stored individual_score of  *)
(* every player is the score calculator's value for the player's stored  *)
(* balance, missions_completed, puzzles_solved, kills_made and           *)
(* influence_points.                                                     *)
C13_ScoreMatchesStats ==
  \A e \in EmailSet : players[e].individual_score = recalculate_player_score(players[e])

(* The handlers whose success response follows a persistence call. *)
WritingOps ==
  {"transfer_money", "purchase_offer", "complete_mission", "update_money",
   "update_player_stats", "eliminate_player", "revive_player", "assign_role"}

(* C14: whenever a persistence call returns a falsy result the response  *)
(* is an error of the 500 class: while the sheet cannot be written, no    *)
(* first login, transfer, purchase, mission completion, update-money,     *)
(* update-stats, elimination or revival answers with success.             *)
C14_FailedWriteIsServerError ==
  [][(resp = Idle /\ ~writable /\ resp'.status = 200)
       => /\ resp'.op \notin WritingOps
          /\ (resp'.op = "login" /\ resp'.access_token # NoToken
               /\ resp'.access_token.email \in EmailSet)
                => players[resp'.access_token.email].player_id # NoId]_vars

(* C15: after any sequence of completed assign-role and login operations *)
(* every player whose role is not empty has role = assigned_role.        *)
C15_RoleIsAssignedRole ==
  \A e \in EmailSet :
    players[e].role # "" => players[e].role = players[e].assigned_role

(* The first player, whose populated row starts without a role, has     *)
(* been assigned one by the administrator and has logged in with it.     *)
C15_Witness ==
  /\ resp.op = "login" /\ resp.status = 200
  /\ resp.access_token.email = Player1
  /\ players[Player1].player_id = PopulatedId(1)
  /\ players[Player1].role \in Roles
  /\ players[Player1].role = players[Player1].assigned_role

(* C16: refresh with a validly signed, unexpired refresh token returns a *)
(* new access token with the same player_id, email, role and family that *)
(* expires 24 hours after the refresh call; a token of type access, an   *)
(* expired token or a malformed one gets 401 and no token; the store is  *)
(* not written in any case.                                              *)
C16_Refresh ==
  [][(resp = Idle /\ resp'.op = "refresh")
       => LET token == resp'.token
              valid == token.sig = SECRET_KEY /\ token.exp > now
          IN /\ players' = players /\ offers' = offers /\ missions' = missions
             /\ (valid /\ token.type = "refresh")
                  => /\ resp'.status = 200
                     /\ resp'.access_token =
                          [token EXCEPT !.type = "access", !.exp = now + 24 * 60]
             /\ (token.type = "access" \/ ~valid)
                  => /\ resp'.status = 401
                     /\ NoTokenIssued(resp')]_vars

(* A refresh token has been exchanged some time after it was issued. *)
C16_Witness ==
  /\ resp.op = "refresh" /\ resp.status = 200
  /\ resp.token.type = "refresh"
  /\ now > Epoch
  /\ resp.access_token.exp = now + 24 * 60
  /\ session[Player1].access_token = resp.access_token

(* C17: a validly signed, unexpired token without a type claim is        *)
(* accepted by decode_token under the expected kinds access and refresh, *)
(* and without an expected kind (as GET /auth/verify calls it) a token   *)
(* of either kind is accepted.                                           *)
C17_Relaxations ==
  LET valid == resp.token.sig = SECRET_KEY /\ resp.token.exp > now IN
  /\ (resp.op = "decode_token" /\ valid /\ resp.token.type = "")
       => resp.status = 200
  /\ (resp.op = "decode_token" /\ valid /\ resp.expected = NoKind)
       => resp.status = 200
  /\ (resp.op = "verify_token" /\ valid) => resp.status = 200

(* A token without a type claim has been accepted as an access token. *)
C17_Witness ==
  /\ resp.op = "decode_token" /\ resp.status = 200
  /\ resp.token.type = "" /\ resp.expected = "access"
  /\ resp.token.sig = SECRET_KEY /\ resp.token.exp > now

(* C18: a token issued at time t has the type of its kind and expires   *)
(* at t + 24 hours (access) or t + 7 days (refresh); validating a signed *)
(* token of the expected kind succeeds at every time before its exp and  *)
(* fails with the expired error (401) at every time after it.            *)
C18_TokenLifetime ==
  [][/\ (resp = Idle /\ resp'.op = "login" /\ resp'.access_token # NoToken)
          => /\ resp'.access_token.type = "access"
             /\ resp'.access_token.exp = now + 24 * 60
             /\ resp'.refresh_token.type = "refresh"
             /\ resp'.refresh_token.exp = now + 7 * 24 * 60
     /\ (/\ resp = Idle /\ resp'.op = "decode_token"
         /\ resp'.token.sig = SECRET_KEY
         /\ resp'.token.type = resp'.expected)
          => /\ now < resp'.token.exp => resp'.status = 200
             /\ now > resp'.token.exp
                  => /\ resp'.status = 401
                     /\ resp'.detail = "Token has expired. Please login again or refresh your token"]_vars

(* A token issued by a later login is presented one minute after it      *)
(* expired.                                                              *)
C18_Witness ==
  /\ resp.op = "decode_token" /\ resp.status = 401
  /\ resp.token \in {session[Player1].access_token, session[Player1].refresh_token}
  /\ resp.token.type = resp.expected
  /\ resp.token.exp > Epoch + 7 * 24 * 60
  /\ now = resp.token.exp + 1

(* C19: an administrator login with the fixed password and no role or    *)
(* the role Godfather returns tokens for player_id admin-uuid with role  *)
(* Godfather and the synthetic profile (alive, balance 999999999); with  *)
(* a wrong password or any other role it fails and issues nothing; the   *)
(* store is not written in any case.                                     *)
C19_AdminLogin ==
  [][\A password \in RequestPasswords, role \in RequestRoles :
       (resp = Idle /\ resp'.op = "login" /\ Login(ADMIN_USERNAME, password, role))
       => /\ players' = players /\ offers' = offers /\ missions' = missions
          /\ IF password = "godfatheradmin@12345varun" /\ role \in {"", "Godfather"}
             THEN /\ resp'.status = 200
                  /\ \A token \in {resp'.access_token, resp'.refresh_token} :
                       /\ token.player_id = AdminUuid
                       /\ token.role = "Godfather"
                       /\ token.email = ADMIN_USERNAME
                       /\ token.sig = SECRET_KEY
                  /\ resp'.access_token.type = "access"
                  /\ resp'.refresh_token.type = "refresh"
                  /\ resp'.player.player_id = AdminUuid
                  /\ resp'.player.role = "Godfather"
                  /\ Truthy(resp'.player.alive)
                  /\ resp'.player.balance = 999999999
             ELSE /\ resp'.status \in {401, 403}
                  /\ NoTokenIssued(resp')]_vars

(* The administrator has logged in and holds the tokens. *)
C19_Witness ==
  /\ resp.op = "login" /\ resp.status = 200
  /\ resp.access_token.player_id = AdminUuid
  /\ resp.player = AdminPlayer
  /\ session[ADMIN_USERNAME].access_token = resp.access_token

(* C20: a login with an unknown email and a login with an existing email *)
(* and a wrong password get the same status code and the same error      *)
(* detail.                                                               *)
C20_NoEmailEnumeration ==
  \A password \in RequestPasswords, role \in RequestRoles :
    password # players[Player1].password
    => LET unknown == login(players, [email |-> UnknownEmail, password |-> password,
                                      role |-> role], now).resp
           existing == login(players, [email |-> Player1, password |-> password,
                                       role |-> role], now).resp
       IN /\ unknown.status = existing.status
          /\ unknown.detail = existing.detail

(* C21: get_missions_for_player lists a mission exactly when the caller  *)
(* is an administrator, or the mission is public and its family and role *)
(* are "all" or the player's, or it is private and assigned to the       *)
(* player, or it is a family mission of the player's family; and the     *)
(* lists that GET /missions/all answers hold exactly those missions of   *)
(* the day asked for.                                                    *)
C21_Gate(m, player_id, role, family, admin) ==
  \/ admin
  \/ /\ m.visibility = "public"
     /\ m.assigned_family \in {"all", family}
     /\ m.assigned_role \in {"all", role}
  \/ m.visibility = "private" /\ m.assigned_to = player_id
  \/ m.visibility = "family" /\ m.assigned_family = family

Listed(list) == {list[i] : i \in DOMAIN list}

C21_VisibilityGate ==
  /\ \A player_id \in KnownIds \cup {NoId}, role \in Roles \cup {""},
        family \in BoardFamilies \cup {""}, admin \in BOOLEAN :
       LET listed == Listed(get_missions_for_player(missions, player_id, role,
                                                    family, admin))
       IN \A m \in Listed(missions) :
            m \in listed <=> C21_Gate(m, player_id, role, family, admin)
  /\ resp.op = "get_all_missions_for_player" /\ resp.status = 200
       => LET Seen(m) == C21_Gate(m, resp.player.player_id, resp.player.role,
                                  resp.player.family,
                                  resp.player.email = ADMIN_USERNAME)
          IN /\ \A m \in Listed(resp.missions) : m \in Listed(missions) /\ Seen(m)
             /\ \A m \in Listed(missions), n \in Listed(resp.missions) :
                  m.day = n.day /\ Seen(m) => m \in Listed(resp.missions)

(* a public mission of the Tattaglia family for every role is listed for *)
(* the Tattaglia soldier                                                 *)
C21_Witness ==
  /\ resp.op = "get_all_missions_for_player" /\ resp.status = 200
  /\ resp.player.family = "Tattaglia"
  /\ \E j \in DOMAIN resp.missions :
       /\ resp.missions[j].visibility = "public"
       /\ resp.missions[j].assigned_family = "Tattaglia"
       /\ resp.missions[j].assigned_role = "all"

(* C22: both endpoints that answer a filtered mission list apply the    *)
(* unlock gate first: a caller who is not an administrator receives no  *)
(* mission while the hour is below the configured unlock hour, and an   *)
(* administrator receives the missions of the day at any hour whatever  *)
(* their visibility.                                                    *)
C22_UnlockGate ==
  resp.op \in {"get_today_missions", "get_all_missions_for_player"} /\ resp.status = 200
    => /\ resp.player.email # ADMIN_USERNAME /\ resp.hour < game_state.mission_unlock_hour
            => resp.missions = <<>>
       /\ resp.player.email = ADMIN_USERNAME
            => \A m \in Listed(missions) :
                 (\E n \in Listed(resp.missions) : n.day = m.day)
                   => m \in Listed(resp.missions)

(* C23: is_market_open is true exactly for the clock readings in        *)
(* [23:11:00, 24:00:00) and [00:00:00, 00:11:00); a purchase whose body *)
(* runs while the gate is false answers 403 and leaves balances,        *)
(* inventories and stock as they were; listing the offers succeeds for  *)
(* an authenticated player at any time.                                 *)
C23_Open(seconds) ==
  \/ (23 * 60 + 11) * 60 <= seconds /\ seconds < SecondsPerDay
  \/ 0 <= seconds /\ seconds < 11 * 60

C23_MarketGate ==
  /\ \A minute \in 0..(24 * 60 - 1), second \in {0, 59} :
       LET seconds == 60 * minute + second IN
       is_market_open(hour_of(seconds), minute_of(seconds)) <=> C23_Open(seconds)
  /\ [][/\ resp'.op = "purchase_offer"
           => \A clock \in GateClock, k \in Slots, offer_id \in {1, 2} :
                (/\ ~C23_Open(clock)
                 /\ pending[k].busy
                 /\ PurchaseBody(k, offer_id, hour_of(clock), minute_of(clock)))
                  => /\ resp'.status = 403
                     /\ players' = players
                     /\ offers' = offers
        /\ resp'.op = "get_offers"
           => \A clock \in GateClock, token \in PresentedMarket :
                (/\ get_current_player(players, token, now).ok
                 /\ GetOffers(token, hour_of(clock), minute_of(clock)))
                  => resp'.status = 200 /\ resp'.offers = offers
      ]_vars

(* a purchase was refused because the market is closed *)
C23_Witness ==
  /\ resp.op = "purchase_offer" /\ resp.status = 403
  /\ resp.detail = "Black Market is closed. Opens at 11:11 PM IST"
  /\ \E e \in EmailSet : players[e].balance >= offers[1].price
  /\ offers[1].quantity_available > 0

(* C24: ten times calculate_individual_score(balance, m, p, k, i) is    *)
(* 4*balance + 400*m + 300*p + 1000*k + 2*i; the score of all zeros is  *)
(* 0 and the score of (100000, 3, 0, 1, 0) is 40220; recalculating a    *)
(* player's score reports that value for the stored statistics and      *)
(* changes nothing but the stored score.                                *)
C24_Formula(balance, m, p, k, i) ==
  4 * balance + 400 * m + 300 * p + 1000 * k + 2 * i

C24_ScoreCalculator ==
  /\ calculate_individual_score(0, 0, 0, 0, 0) = 0
  /\ calculate_individual_score(100000, 3, 0, 1, 0) = 10 * 40220
  /\ \A e \in EmailSet :
       recalculate_player_score(players[e])
         = C24_Formula(players[e].balance, players[e].missions_completed,
                       players[e].puzzles_solved, players[e].kills_made,
                       players[e].influence_points)
  /\ [][resp'.op = "update_player_score" /\ resp'.status = 200
          => \E e \in EmailSet :
               /\ resp'.new_score
                    = C24_Formula(players[e].balance, players[e].missions_completed,
                                  players[e].puzzles_solved, players[e].kills_made,
                                  players[e].influence_points)
               /\ players' = [players EXCEPT ![e].individual_score = resp'.new_score]
      ]_vars

(* the score of a player with kills and missions was recalculated *)
C24_Witness ==
  /\ resp.op = "update_player_score" /\ resp.status = 200
  /\ resp.new_score > 0
  /\ \E e \in EmailSet :
       /\ players[e].kills_made > 0 /\ players[e].missions_completed > 0
       /\ players[e].individual_score = resp.new_score

C26_Leaderboard ==
  resp.op = "get_leaderboard" /\ resp.status = 200
    => /\ \A i \in DOMAIN resp.leaderboard, e \in EmailSet :
            players[e].player_id = resp.leaderboard[i].player_id
              => ~Eliminated(players[e])
       /\ \A i \in DOMAIN resp.leaderboard, j \in DOMAIN resp.leaderboard :
            i < j => resp.leaderboard[i].individual_score
                       >= resp.leaderboard[j].individual_score
       /\ Len(resp.leaderboard) <= resp.limit

(* C27: a successful transfer of amount a between two distinct players  *)
(* lowers the sender's stored balance by exactly a, raises the          *)
(* recipient's by exactly a, and answers the sender's stored balance as *)
(* new_balance.                                                         *)
C27_TransferMovesAmountOnce ==
  [][\A token \in Presented, to_player_id \in IntIds(KnownIds), amount \in Amounts :
       LET f == get_player_by_id(players, token.player_id)
           r == get_player_by_id(players, to_player_id)
       IN (/\ resp'.op = "transfer_money" /\ resp'.status = 200
           /\ f # NoRow /\ r # NoRow /\ f # r
           /\ TransferMoney(token, to_player_id, amount))
          => /\ players'[Emails[f]].balance = players[Emails[f]].balance - amount
             /\ players'[Emails[r]].balance = players[Emails[r]].balance + amount
             /\ resp'.new_balance = players'[Emails[f]].balance]_vars

(* C28: no lost update on a balance.  Whatever requests were served     *)
(* between the moment a purchase was accepted for processing and its    *)
(* body, a purchase that answers success lowers the buyer's stored      *)
(* balance by the price and adds the item to the stored inventory, so   *)
(* that the final balance is the initial one plus the deltas of all     *)
(* successful requests and the inventory holds every item reported as   *)
(* purchased.                                                           *)
C28_NoLostUpdate ==
  [][\A k \in Slots, offer_id \in {1, 2} :
       LET i == get_player_by_id(players, pending[k].player.player_id)
           idx == FirstRow({j \in DOMAIN offers : offers[j].offer_id = offer_id})
       IN (/\ resp'.op = "purchase_offer" /\ resp'.status = 200
           /\ pending[k].busy /\ i # NoRow /\ idx # NoRow
           /\ PurchaseBody(k, offer_id, OpenTime[1], OpenTime[2]))
          => /\ players'[Emails[i]].balance
                  = players[Emails[i]].balance - offers[idx].price
             /\ players'[Emails[i]].items
                  = Append(players[Emails[i]].items, offers[idx].item_name)]_vars

(* C29: every token pair that login issues to a player carries a        *)
(* player_id claim that is not empty and equals the player_id stored    *)
(* for that email, and once the logins for an email have completed the  *)
(* stored player_id equals the claim of every token issued for it.      *)
C29_TokenCarriesStoredId ==
  /\ (/\ resp.op = "login" /\ resp.status = 200
       /\ resp.access_token # NoToken
       /\ resp.access_token.email \in EmailSet)
      => /\ resp.access_token.player_id # NoId
         /\ resp.access_token.player_id = players[resp.access_token.email].player_id
         /\ resp.refresh_token.player_id = resp.access_token.player_id
  /\ \A e \in EmailSet :
       session[e].access_token # NoToken
         => /\ session[e].access_token.player_id = players[e].player_id
            /\ session[e].refresh_token.player_id = players[e].player_id

(* C30: the access token that the administrator's login issued is       *)
(* granted access by every admin-only endpoint: the /admin router, the  *)
(* admin endpoints of the black market and GET                          *)
(* /missions/admin/all-missions; none of them answers 403.              *)
C30_AdminRecognized ==
  [][LET admin == session[ADMIN_USERNAME].access_token IN
     (/\ resp = Idle
      /\ \/ GetAllMissionsAdmin(admin)
         \/ GetAllOffersAdmin(admin)
         \/ ClearMissions(admin)
         \/ \E request \in AddMissionRequests : AddMission(admin, request)
         \/ \E day \in BoardDays : SetGameDay(admin, day)
         \/ \E hour \in UnlockHours : SetUnlockHour(admin, hour))
     => resp'.status # 403]_vars
====
